---- MODULE Spec2Model ----
(***************************************************************************)
(* Model of the cake-shop worker (src/src/index.ts) and of its OrderCounter *)
(* Durable Object (the class listed in src/test-queue.md, lines 248-513).   *)
(*                                                                          *)
(* Two parts share the module:                                              *)
(*   - the Counter Actor: the OrderCounter object, its storage, its         *)
(*     WebSockets and the calls in flight to it;                            *)
(*   - the Fulfillment domain: the POST /order gateway, the order table,    *)
(*     the cake-orders queue and the queue() consumer.                      *)
(* Every handler is cut at its awaits; the steps between two awaits are one *)
(* action.                                                                  *)
(***************************************************************************)
EXTENDS Integers, Sequences, FiniteSets, TLC

(* ------------------------------ bounds --------------------------------- *)
\* number of calls external clients issue to the counter endpoints, each by
\* its own client, so that up to NumClients calls are in flight at once
NumClients == 3
\* number of WebSocket connections that may be opened
NumSockets == 2
\* number of times the Durable Object is evicted and constructed again
MaxRestarts == 1

\* number of calls external clients issue while push channels are observed
NumPushCalls == 1
\* largest count found in storage when the object is activated
MaxStored == 1
\* number of WebSocket connections opened while the persisted counts vary
NumPushSockets == 1

\* number of calls external clients issue while the channels' messages are
\* observed
NumChannelCalls == 2
\* number of messages the clients send on their WebSockets
MaxInbound == 1

\* number of calls made while the two entries of the object (fetch and the
\* methods of its stub) are compared
NumEntryCalls == 2

\* number of orders submitted to POST /order
NumOrders == 2
\* number of message deliveries in a run, all messages together
MaxDeliveries == 3
\* number of injected faults in a run of the shop: store writes that throw and
\* counter calls of the worker or the gateway that fail
MaxFaults == 1
\* largest value of the clock
MaxClock == 1
\* number of invocations that process the same message at overlapping times
NumAttempts == 2

(* ------------------------- program constants --------------------------- *)
\* wrangler.jsonc, queues.consumers[0]
max_batch_size == 10
max_retries == 3

Clients == 1..NumClients
Attempts == 1..NumAttempts
Sockets == 1..NumSockets
Orders == 1..NumOrders

\* callers of the counter: external clients, the queue consumer, the gateway
Worker == NumClients + 1
Gateway == NumClients + 2
Callers == Clients \cup {Worker, Gateway}

\* storage.get() of a key never written resolves to undefined
Undefined == 0 - 1
\* a column of the orders table that holds NULL
Null == 0 - 1
\* the estimated_time column (a text, modelled as a tuple) when it holds NULL,
\* and null in the estimatedTime field of an answer
NullText == <<>>

VARIABLES
  completedCount,  \* OrderCounter.completedCount (in memory)
  queuedCount,     \* OrderCounter.queuedCount (in memory)
  storage,         \* ctx.storage: keys completedOrders, queuedOrders
  loading,         \* initializeCounters() started by the constructor, not yet resumed
  call,            \* per caller: the request in flight to the counter and its handler's position
  sessions,        \* OrderCounter.sessions
  webSockets,      \* ctx.getWebSockets(): the sockets accepted and not yet closed
  wsState,         \* per socket: "new", "open" (readyState OPEN), "closing", "closed"
  inbox,           \* per socket: the last message the client received
  hist,            \* history of the counter: calls succeeded and failed, messages pushed,
                   \* fresh = no event handled since the object was constructed,
                   \* inbound and msg = the messages received on the sockets, the last one
                   \* (its socket, its type, the broadcasts made before it)
  store,           \* the orders table: per order id its row, or no row
  msgs,            \* the cake-orders queue: per order id its message's state and deliveries
  wk,              \* the queue() invocation in progress: its batch and its position
  gw,              \* the POST /order request in progress and the last response
                   \* (counted = its increment-queued call succeeded)
  now,             \* the clock read by new Date()
  att,             \* per overlapping invocation on the redelivered message: its
                   \* position and the timestamp it holds (now, then completedAt)
  trail            \* history of the shop: completed writes, faults injected, the
                   \* orders of which an attempt failed or was cut short

counterVars == <<completedCount, queuedCount, storage, loading, sessions,
                 webSockets, wsState, inbox, hist>>
shopVars == <<store, msgs, wk, gw, now, trail, att>>

vars == <<completedCount, queuedCount, storage, loading, call, sessions,
          webSockets, wsState, inbox, hist, store, msgs, wk, gw, now, trail, att>>

(* ----------------------------- counter --------------------------------- *)
NoMessage == <<"none">>
\* { type: "count_update", completedCount, queuedCount, timestamp }
CountUpdate(c, q) == <<"count_update", c, q>>
Pong == <<"pong">>

\* via: the entry the call takes, a request to fetch() or a method of the stub
IdleCall == [op |-> "none", via |-> "fetch", pc |-> "idle", put |-> 0, ok |-> TRUE,
             ret |-> <<0, 0>>]

\* storedCompleted || 0
OrZero(v) == IF v = Undefined THEN 0 ELSE v

\* this.completedCount++ / this.queuedCount++
LostIncrement(n) == n
Increment(n) == n + 1

\* Response.json({ success, completedCount, queuedCount, message }) of the
\* mutating handlers: the counts are read when the handler answers
AnswerBeforeIncrement(c) == <<call[c].put - 1, queuedCount>>
Answer(c) == <<completedCount, queuedCount>>

\* The runtime delivers no new event to the object while one of its storage
\* operations is awaited (the storage.get of initializeCounters, the
\* storage.put of a handler): the handler resumes before any other event.
GateAlwaysOpen == TRUE
InputGateOpen == ~loading /\ \A c \in Callers : call[c].pc # "awaitPut"

\* broadcast(message): send to every accepted socket whose readyState is OPEN;
\* a send that throws removes the socket from this.sessions.
BroadcastInboxAborts(msg, failing) ==
  [s \in Sockets |->
     IF /\ s \in webSockets /\ wsState[s] = "open"
        /\ \A d \in failing : s < d
     THEN msg ELSE inbox[s]]
BroadcastInboxToSessions(msg, failing) ==
  [s \in Sockets |->
     IF s \in sessions /\ wsState[s] = "open" /\ s \notin failing
     THEN msg ELSE inbox[s]]
BroadcastInboxAnyState(msg, failing) ==
  [s \in Sockets |->
     IF s \in webSockets /\ s \notin failing THEN msg ELSE inbox[s]]
BroadcastInbox(msg, failing) ==
  [s \in Sockets |->
     IF s \in webSockets /\ wsState[s] = "open" /\ s \notin failing
     THEN msg ELSE inbox[s]]
BroadcastSessions(failing) ==
  sessions \ {s \in webSockets : wsState[s] = "open" /\ s \in failing}
OpenSockets == {s \in webSockets : wsState[s] = "open"}
\* ws.send(message) in webSocketMessage: to the socket the message came from
ReplyToAll(s, msg) ==
  [d \in Sockets |->
     IF d \in webSockets /\ wsState[d] = "open" THEN msg ELSE inbox[d]]
ReplyTo(s, msg) == [inbox EXCEPT ![s] = msg]
\* JSON.parse(message.toString()).type of the messages the clients send:
\* the two types the switch knows, another type, and a text JSON.parse rejects
Inbound == {"get_count", "ping", "unknown", "unparsable"}
\* history: the number of messages pushed to each socket, after a broadcast
\* in which the sends to the sockets of failing threw
Pushed(failing) ==
  [s \in Sockets |->
     IF s \in OpenSockets \ failing THEN hist.pushed[s] + 1 ELSE hist.pushed[s]]

(* ------------------------------- shop ---------------------------------- *)
\* no row with this id in the orders table
NoRow == [status |-> "none", processedAt |-> Null, completedAt |-> Null,
          updatedAt |-> Null, estimatedTime |-> NullText]

\* estimateTime(size, toppings): the text `${total}-${total + 2} minutes`, as
\* the pair of its two numbers; toppings is the length of the list
estimateTime(size, toppings) ==
  LET base == IF size = "small" THEN 3 ELSE IF size = "large" THEN 7 ELSE 5
      total == base + (toppings \div 2)
  IN  <<total, total + 2>>

\* POST /order: the row inserted (status pending; processedAt and completedAt
\* are not given and stay NULL)
NewOrder(body, t) ==
  [status |-> "pending", processedAt |-> Null, completedAt |-> Null,
   updatedAt |-> t, estimatedTime |-> estimateTime(body.size, body.toppings)]

\* processIceCreamOrder: .set({ status: 'preparing', processedAt: now, updatedAt: now })
SetPreparingResetsCompletedAt(row, t) ==
  [row EXCEPT !.status = "preparing", !.processedAt = t, !.updatedAt = t,
              !.completedAt = Null]
SetPreparing(row, t) ==
  [row EXCEPT !.status = "preparing", !.processedAt = t, !.updatedAt = t]

\* the values the schema allows in the status column
Statuses == {"pending", "preparing", "ready", "completed", "cancelled"}

\* processIceCreamOrder: .set({ status: 'completed', completedAt, updatedAt: completedAt })
SetCompletedAsReady(row, t) ==
  [row EXCEPT !.status = "ready", !.completedAt = t, !.updatedAt = t]
SetCompleted(row, t) ==
  [row EXCEPT !.status = "completed", !.completedAt = t, !.updatedAt = t]

\* queue(), catch branch: .set({ status: 'cancelled', updatedAt: new Date() })
SetCancelled(row, t) ==
  [row EXCEPT !.status = "cancelled", !.updatedAt = t]

\* db.update(orders).set(...).where(eq(orders.id, id)): no row, no change
Update(o, row) ==
  IF store[o].status = "none" THEN store ELSE [store EXCEPT ![o] = row]

\* the request the worker sends to the counter after the completed write
CounterRequestOnce(o) ==
  IF store[o].completedAt # Null THEN [IdleCall EXCEPT !.pc = "done"]
  ELSE [IdleCall EXCEPT !.op = "increment-completed", !.pc = "sent"]
CounterRequest(o) == [IdleCall EXCEPT !.op = "increment-completed", !.pc = "sent"]

\* the faults injected so far stay within the budget (external clients'
\* calls are not counted)
FaultBudget(c) == c \in Clients \/ hist.fails + trail.faults < MaxFaults
StoreFaultBudget == hist.fails + trail.faults < MaxFaults

\* no queue() invocation in progress; err is the error the last invocation
\* threw to the queue layer ("none" when it returned)
IdleWorker == [pc |-> "idle", batch |-> <<>>, idx |-> 0, err |-> "none"]

\* queue(), catch (error) { try { cancelled write } catch (dbError) { log }
\* throw error }: the error thrown is the one caught from
\* processIceCreamOrder, whether the cancelled write threw or not
RethrownStoreError(err, writeOk) == IF writeOk THEN err ELSE "cancel"
Rethrown(err, writeOk) == err

\* an invocation that has not started
NoAttempt == [pc |-> "none", t |-> 0]
\* the order whose message is delivered again while it is being processed
Redelivered == 1

\* the message being processed by the queue() invocation in progress
Current == wk.batch[wk.idx]

\* a message of a failed invocation, delivered n times so far: retried, or
\* moved to the dead letter queue once it has had max_retries retries
AfterFailureLate(n) == IF n > max_retries + 1 THEN "dead" ELSE "queued"
AfterFailure(n) == IF n > max_retries THEN "dead" ELSE "queued"
\* the queue once the invocation in progress has failed: every message of
\* its batch is retried
Retried ==
  [o \in Orders |->
     IF msgs[o].state = "delivered"
     THEN [msgs[o] EXCEPT !.state = AfterFailure(msgs[o].deliveries)]
     ELSE msgs[o]]

\* the batches the queue may deliver when no invocation is in progress: the
\* queued messages, in any order, at most max_batch_size of them
QueuedOrDead == {o \in Orders : msgs[o].state \in {"queued", "dead"}}
Queued == {o \in Orders : msgs[o].state = "queued"}
\* the deliveries made so far, all messages together
RECURSIVE SumDeliveries(_)
SumDeliveries(S) ==
  IF S = {} THEN 0
  ELSE LET o == CHOOSE x \in S : TRUE
       IN  msgs[o].deliveries + SumDeliveries(S \ {o})
Delivered == SumDeliveries(Orders)
Batches ==
  IF wk.pc # "idle" THEN {}
  ELSE {b \in UNION {[1..k -> Queued] : k \in 1..Cardinality(Queued)} :
          /\ Len(b) <= max_batch_size
          /\ \A i, j \in 1..Len(b) : i # j => b[i] # b[j]}

\* Orders whose rows and messages are equal are interchangeable:
\* of the batches that differ only by a permutation of such orders, the one
\* that takes them by increasing id stands for all
Indistinguishable(o, p) ==
  store[o] = store[p] /\ msgs[o] = msgs[p]
Canonical(b) ==
  \A o, p \in Orders :
    (o < p /\ Indistinguishable(o, p) /\ \E j \in 1..Len(b) : b[j] = p)
      => \E i, j \in 1..Len(b) : i < j /\ b[i] = o /\ b[j] = p

\* POST /order: the fields of the body the validation reads
Bodies == [customerName : {"", "Alice"}, flavor : {"Chocolate"},
           size : {"medium", "huge"}, toppings : {1}]
ValidBody(body) ==
  /\ body.customerName # "" /\ body.flavor # ""
  /\ body.size \in {"small", "medium", "large"}

Init ==
  /\ completedCount = 0
  /\ queuedCount = 0
  /\ storage = [completedOrders |-> Undefined, queuedOrders |-> Undefined]
  /\ loading = TRUE
  /\ call = [c \in Callers |-> IdleCall]
  /\ sessions = {}
  /\ webSockets = {}
  /\ wsState = [s \in Sockets |-> "new"]
  /\ inbox = [s \in Sockets |-> NoMessage]
  /\ hist = [okC |-> 0, okQ |-> 0, fails |-> 0, resets |-> 0, restarts |-> 0,
             bcasts |-> 0, overlap |-> 0, fresh |-> TRUE, threw |-> {},
             pushed |-> [s \in Sockets |-> 0],
             inbound |-> 0, msg |-> <<0, "none", 0>>]
  /\ store = [o \in Orders |-> NoRow]
  /\ msgs = [o \in Orders |-> [state |-> "none", deliveries |-> 0]]
  /\ wk = IdleWorker
  /\ gw = [pc |-> "idle", order |-> 0, resp |-> 0, counted |-> TRUE]
  /\ now = 0
  /\ trail = [completions |-> 0,
              faults |-> 0, failed |-> {}]
  /\ att = [a \in Attempts |-> NoAttempt]

\* the object is activated with the counts an earlier life persisted (a key
\* never written is undefined)
Stored == {Undefined} \cup 0..MaxStored
InitPersisted ==
  /\ completedCount = 0
  /\ queuedCount = 0
  /\ storage \in [completedOrders : Stored, queuedOrders : Stored]
  /\ loading = TRUE
  /\ call = [c \in Callers |-> IdleCall]
  /\ sessions = {}
  /\ webSockets = {}
  /\ wsState = [s \in Sockets |-> "new"]
  /\ inbox = [s \in Sockets |-> NoMessage]
  /\ hist = [okC |-> 0, okQ |-> 0, fails |-> 0, resets |-> 0, restarts |-> 0,
             bcasts |-> 0, overlap |-> 0, fresh |-> TRUE, threw |-> {},
             pushed |-> [s \in Sockets |-> 0],
             inbound |-> 0, msg |-> <<0, "none", 0>>]
  /\ store = [o \in Orders |-> NoRow]
  /\ msgs = [o \in Orders |-> [state |-> "none", deliveries |-> 0]]
  /\ wk = IdleWorker
  /\ gw = [pc |-> "idle", order |-> 0, resp |-> 0, counted |-> TRUE]
  /\ now = 0
  /\ trail = [completions |-> 0,
              faults |-> 0, failed |-> {}]
  /\ att = [a \in Attempts |-> NoAttempt]

\* the body of the orders accepted
AcceptedBody == [customerName |-> "Alice", flavor |-> "Chocolate",
                 size |-> "medium", toppings |-> 1]
\* the state once POST /order has accepted NumOrders orders, one after the
\* other: each row inserted with status pending, the counter incremented, the
\* message sent to the queue
InitQueued ==
  /\ completedCount = 0
  /\ queuedCount = NumOrders
  /\ storage = [completedOrders |-> Undefined, queuedOrders |-> NumOrders]
  /\ loading = FALSE
  /\ call = [c \in Callers |-> IdleCall]
  /\ sessions = {}
  /\ webSockets = {}
  /\ wsState = [s \in Sockets |-> "new"]
  /\ inbox = [s \in Sockets |-> NoMessage]
  /\ hist = [okC |-> 0, okQ |-> NumOrders, fails |-> 0, resets |-> 0,
             restarts |-> 0, bcasts |-> NumOrders, overlap |-> 0,
             fresh |-> FALSE, threw |-> {}, pushed |-> [s \in Sockets |-> 0],
             inbound |-> 0, msg |-> <<0, "none", 0>>]
  /\ store = [o \in Orders |-> NewOrder(AcceptedBody, 0)]
  /\ msgs = [o \in Orders |-> [state |-> "queued", deliveries |-> 0]]
  /\ wk = IdleWorker
  /\ gw = [pc |-> "idle", order |-> NumOrders, resp |-> 200, counted |-> TRUE]
  /\ now = 0
  /\ trail = [completions |-> 0,
              faults |-> 0, failed |-> {}]
  /\ att = [a \in Attempts |-> NoAttempt]

\* initializeCounters(), resumed after its two storage.get calls
initializeCounters ==
  /\ loading
  /\ completedCount' = OrZero(storage.completedOrders)
  /\ queuedCount' = OrZero(storage.queuedOrders)
  /\ loading' = FALSE
  /\ UNCHANGED <<storage, call, sessions, webSockets, wsState, inbox, hist>>
  /\ UNCHANGED shopVars

\* the object is evicted while idle and constructed again by the next event:
\* the fields are re-initialised, the accepted sockets survive, the constructor
\* starts initializeCounters()
Restart ==
  /\ hist.restarts < MaxRestarts
  /\ InputGateOpen
  /\ completedCount' = 0
  /\ queuedCount' = 0
  /\ sessions' = {}
  /\ loading' = TRUE
  /\ hist' = [hist EXCEPT !.restarts = @ + 1, !.fresh = TRUE]
  /\ UNCHANGED <<storage, call, webSockets, wsState, inbox>>
  /\ UNCHANGED shopVars

\* the increment-completed calls of the callers other than c that are sent
\* and not yet answered
InFlight(c) ==
  Cardinality({d \in Callers \ {c} : /\ call[d].op = "increment-completed"
                                      /\ call[d].pc \in {"sent", "awaitPut"}})

\* an external client sends a request to one of the counter's endpoints
ClientRequest(c, op) ==
  /\ c \in Clients
  /\ call[c].pc = "idle"
  /\ \A d \in Clients : d < c => call[d].pc # "idle"
  /\ call' = [call EXCEPT ![c] = [IdleCall EXCEPT !.op = op, !.pc = "sent"]]
  /\ hist' = [hist EXCEPT
       !.overlap = IF op = "increment-completed" /\ InFlight(c) + 1 > @
                   THEN InFlight(c) + 1 ELSE @]
  /\ UNCHANGED <<completedCount, queuedCount, storage, loading, sessions,
                 webSockets, wsState, inbox>>
  /\ UNCHANGED shopVars

\* a worker calls a method of the object's stub: incrementCompletedCount(),
\* incrementQueuedCount() or getCurrentCounts(), named here by the endpoint
\* that does the same
StubCall(c, op) ==
  /\ c \in Clients
  /\ call[c].pc = "idle"
  /\ \A d \in Clients : d < c => call[d].pc # "idle"
  /\ call' = [call EXCEPT ![c] = [IdleCall EXCEPT !.op = op, !.via = "rpc",
                                                  !.pc = "sent"]]
  /\ UNCHANGED <<completedCount, queuedCount, storage, loading, sessions,
                 webSockets, wsState, inbox, hist>>
  /\ UNCHANGED shopVars

\* the request does not reach the object: counter.fetch() rejects
CallFails(c) ==
  /\ call[c].pc = "sent"
  /\ FaultBudget(c)
  /\ call' = [call EXCEPT ![c].pc = "done", ![c].ok = FALSE]
  /\ hist' = [hist EXCEPT !.fails = @ + 1]
  /\ UNCHANGED <<completedCount, queuedCount, storage, loading, sessions,
                 webSockets, wsState, inbox>>
  /\ UNCHANGED shopVars

\* handleIncrementCompleted(), up to its await of storage.put
handleIncrementCompleted(c) ==
  /\ call[c].pc = "sent" /\ call[c].op = "increment-completed"
  /\ InputGateOpen
  /\ completedCount' = Increment(completedCount)
  /\ call' = [call EXCEPT ![c].pc = "awaitPut", ![c].put = completedCount']
  /\ hist' = [hist EXCEPT !.fresh = FALSE]
  /\ UNCHANGED <<queuedCount, storage, loading, sessions, webSockets, wsState,
                 inbox>>
  /\ UNCHANGED shopVars

\* handleIncrementCompleted(), from the await of storage.put on: the put
\* resolves (ok) and the handler broadcasts and answers, or it rejects
handleIncrementCompletedResume(c, ok, failing) ==
  /\ call[c].pc = "awaitPut" /\ call[c].op = "increment-completed"
  /\ IF ok
     THEN /\ storage' = [storage EXCEPT !.completedOrders = call[c].put]
          /\ inbox' = BroadcastInbox(CountUpdate(completedCount, queuedCount), failing)
          /\ sessions' = BroadcastSessions(failing)
          /\ call' = [call EXCEPT ![c].pc = "done", ![c].ok = TRUE,
                                  ![c].ret = Answer(c)]
          /\ hist' = [hist EXCEPT !.okC = @ + 1, !.bcasts = @ + 1,
                                   !.threw = failing, !.pushed = Pushed(failing)]
     ELSE /\ failing = {}
          /\ FaultBudget(c)
          /\ call' = [call EXCEPT ![c].pc = "done", ![c].ok = FALSE]
          /\ hist' = [hist EXCEPT !.fails = @ + 1]
          /\ UNCHANGED <<storage, inbox, sessions>>
  /\ UNCHANGED <<completedCount, queuedCount, loading, webSockets, wsState>>
  /\ UNCHANGED shopVars

\* handleIncrementQueued(), up to its await of storage.put
handleIncrementQueuedBumpsBoth(c) ==
  /\ call[c].pc = "sent" /\ call[c].op = "increment-queued"
  /\ InputGateOpen
  /\ queuedCount' = Increment(queuedCount)
  /\ completedCount' = Increment(completedCount)
  /\ call' = [call EXCEPT ![c].pc = "awaitPut", ![c].put = queuedCount']
  /\ hist' = [hist EXCEPT !.fresh = FALSE]
  /\ UNCHANGED <<storage, loading, sessions, webSockets, wsState, inbox>>
  /\ UNCHANGED shopVars
handleIncrementQueued(c) ==
  /\ call[c].pc = "sent" /\ call[c].op = "increment-queued"
  /\ InputGateOpen
  /\ queuedCount' = Increment(queuedCount)
  /\ call' = [call EXCEPT ![c].pc = "awaitPut", ![c].put = queuedCount']
  /\ hist' = [hist EXCEPT !.fresh = FALSE]
  /\ UNCHANGED <<completedCount, storage, loading, sessions, webSockets, wsState,
                 inbox>>
  /\ UNCHANGED shopVars

\* handleIncrementQueued(), from the await of storage.put on
handleIncrementQueuedResume(c, ok, failing) ==
  /\ call[c].pc = "awaitPut" /\ call[c].op = "increment-queued"
  /\ IF ok
     THEN /\ storage' = [storage EXCEPT !.queuedOrders = call[c].put]
          /\ inbox' = BroadcastInbox(CountUpdate(completedCount, queuedCount), failing)
          /\ sessions' = BroadcastSessions(failing)
          /\ call' = [call EXCEPT ![c].pc = "done", ![c].ok = TRUE,
                                  ![c].ret = Answer(c)]
          /\ hist' = [hist EXCEPT !.okQ = @ + 1, !.bcasts = @ + 1,
                                   !.threw = failing, !.pushed = Pushed(failing)]
     ELSE /\ failing = {}
          /\ FaultBudget(c)
          /\ call' = [call EXCEPT ![c].pc = "done", ![c].ok = FALSE]
          /\ hist' = [hist EXCEPT !.fails = @ + 1]
          /\ UNCHANGED <<storage, inbox, sessions>>
  /\ UNCHANGED <<completedCount, queuedCount, loading, webSockets, wsState>>
  /\ UNCHANGED shopVars

\* handleGetCount() that also broadcasts the counts, as the mutating handlers do
handleGetCountBroadcasts(c) ==
  /\ call[c].pc = "sent" /\ call[c].op = "count"
  /\ InputGateOpen
  /\ call' = [call EXCEPT ![c].pc = "done", ![c].ok = TRUE,
                          ![c].ret = <<completedCount, queuedCount>>]
  /\ inbox' = BroadcastInbox(CountUpdate(completedCount, queuedCount), {})
  /\ hist' = [hist EXCEPT !.fresh = FALSE, !.bcasts = @ + 1, !.pushed = Pushed({})]
  /\ UNCHANGED <<completedCount, queuedCount, storage, loading, sessions,
                 webSockets, wsState>>
  /\ UNCHANGED shopVars

\* handleGetCount(): no await
handleGetCount(c) ==
  /\ call[c].pc = "sent" /\ call[c].op = "count"
  /\ InputGateOpen
  /\ call' = [call EXCEPT ![c].pc = "done", ![c].ok = TRUE,
                          ![c].ret = <<completedCount, queuedCount>>]
  /\ hist' = [hist EXCEPT !.fresh = FALSE]
  /\ UNCHANGED <<completedCount, queuedCount, storage, loading, sessions,
                 webSockets, wsState, inbox>>
  /\ UNCHANGED shopVars

\* incrementCompletedCount(), up to its await of storage.put
incrementCompletedCount(c) ==
  /\ call[c].pc = "sent" /\ call[c].op = "increment-completed"
  /\ InputGateOpen
  /\ completedCount' = completedCount + 1
  /\ call' = [call EXCEPT ![c].pc = "awaitPut", ![c].put = completedCount + 1]
  /\ hist' = [hist EXCEPT !.fresh = FALSE]
  /\ UNCHANGED <<queuedCount, storage, loading, sessions, webSockets, wsState,
                 inbox>>
  /\ UNCHANGED shopVars

\* incrementCompletedCount(), from the await on: the put resolves and the
\* method broadcasts and returns { completedCount, queuedCount }, or the put
\* rejects and the method throws
incrementCompletedCountResume(c, ok, failing) ==
  /\ call[c].pc = "awaitPut" /\ call[c].op = "increment-completed"
  /\ IF ok
     THEN /\ storage' = [storage EXCEPT !.completedOrders = call[c].put]
          /\ inbox' = BroadcastInbox(CountUpdate(completedCount, queuedCount), failing)
          /\ sessions' = BroadcastSessions(failing)
          /\ call' = [call EXCEPT ![c].pc = "done", ![c].ok = TRUE,
                                  ![c].ret = <<completedCount, queuedCount>>]
          /\ hist' = [hist EXCEPT !.okC = @ + 1, !.bcasts = @ + 1,
                                   !.threw = failing, !.pushed = Pushed(failing)]
     ELSE /\ failing = {}
          /\ FaultBudget(c)
          /\ call' = [call EXCEPT ![c].pc = "done", ![c].ok = FALSE]
          /\ hist' = [hist EXCEPT !.fails = @ + 1]
          /\ UNCHANGED <<storage, inbox, sessions>>
  /\ UNCHANGED <<completedCount, queuedCount, loading, webSockets, wsState>>
  /\ UNCHANGED shopVars

\* incrementQueuedCount(), up to its await of storage.put
incrementQueuedCount(c) ==
  /\ call[c].pc = "sent" /\ call[c].op = "increment-queued"
  /\ InputGateOpen
  /\ queuedCount' = queuedCount + 1
  /\ call' = [call EXCEPT ![c].pc = "awaitPut", ![c].put = queuedCount + 1]
  /\ hist' = [hist EXCEPT !.fresh = FALSE]
  /\ UNCHANGED <<completedCount, storage, loading, sessions, webSockets, wsState,
                 inbox>>
  /\ UNCHANGED shopVars

\* incrementQueuedCount(), from the await on
incrementQueuedCountResume(c, ok, failing) ==
  /\ call[c].pc = "awaitPut" /\ call[c].op = "increment-queued"
  /\ IF ok
     THEN /\ storage' = [storage EXCEPT !.queuedOrders = call[c].put]
          /\ inbox' = BroadcastInbox(CountUpdate(completedCount, queuedCount), failing)
          /\ sessions' = BroadcastSessions(failing)
          /\ call' = [call EXCEPT ![c].pc = "done", ![c].ok = TRUE,
                                  ![c].ret = <<completedCount, queuedCount>>]
          /\ hist' = [hist EXCEPT !.okQ = @ + 1, !.bcasts = @ + 1,
                                   !.threw = failing, !.pushed = Pushed(failing)]
     ELSE /\ failing = {}
          /\ FaultBudget(c)
          /\ call' = [call EXCEPT ![c].pc = "done", ![c].ok = FALSE]
          /\ hist' = [hist EXCEPT !.fails = @ + 1]
          /\ UNCHANGED <<storage, inbox, sessions>>
  /\ UNCHANGED <<completedCount, queuedCount, loading, webSockets, wsState>>
  /\ UNCHANGED shopVars

\* getCurrentCounts() that answers with the counts persisted
getCurrentCountsStored(c) ==
  /\ call[c].pc = "sent" /\ call[c].op = "count"
  /\ InputGateOpen
  /\ call' = [call EXCEPT ![c].pc = "done", ![c].ok = TRUE,
                          ![c].ret = <<OrZero(storage.completedOrders),
                                       OrZero(storage.queuedOrders)>>]
  /\ hist' = [hist EXCEPT !.fresh = FALSE]
  /\ UNCHANGED <<completedCount, queuedCount, storage, loading, sessions,
                 webSockets, wsState, inbox>>
  /\ UNCHANGED shopVars
\* getCurrentCounts(): no await
getCurrentCounts(c) ==
  /\ call[c].pc = "sent" /\ call[c].op = "count"
  /\ InputGateOpen
  /\ call' = [call EXCEPT ![c].pc = "done", ![c].ok = TRUE,
                          ![c].ret = <<completedCount, queuedCount>>]
  /\ hist' = [hist EXCEPT !.fresh = FALSE]
  /\ UNCHANGED <<completedCount, queuedCount, storage, loading, sessions,
                 webSockets, wsState, inbox>>
  /\ UNCHANGED shopVars

\* handleReset(), up to its await of Promise.all of the two storage.put
handleResetCompletedOnly(c) ==
  /\ call[c].pc = "sent" /\ call[c].op = "reset"
  /\ InputGateOpen
  /\ completedCount' = 0
  /\ call' = [call EXCEPT ![c].pc = "awaitPut", ![c].put = 0]
  /\ hist' = [hist EXCEPT !.resets = @ + 1, !.okC = 0, !.okQ = 0, !.fresh = FALSE]
  /\ UNCHANGED <<queuedCount, storage, loading, sessions, webSockets, wsState, inbox>>
  /\ UNCHANGED shopVars
handleReset(c) ==
  /\ call[c].pc = "sent" /\ call[c].op = "reset"
  /\ InputGateOpen
  /\ completedCount' = 0
  /\ queuedCount' = 0
  /\ call' = [call EXCEPT ![c].pc = "awaitPut", ![c].put = 0]
  /\ hist' = [hist EXCEPT !.resets = @ + 1, !.okC = 0, !.okQ = 0, !.fresh = FALSE]
  /\ UNCHANGED <<storage, loading, sessions, webSockets, wsState, inbox>>
  /\ UNCHANGED shopVars

\* handleReset(), from the await on: each of the two puts resolves or rejects
handleResetResume(c, okCompleted, okQueued, failing) ==
  /\ call[c].pc = "awaitPut" /\ call[c].op = "reset"
  /\ storage' = [completedOrders |-> IF okCompleted THEN call[c].put
                                     ELSE storage.completedOrders,
                 queuedOrders |-> IF okQueued THEN call[c].put
                                  ELSE storage.queuedOrders]
  /\ IF okCompleted /\ okQueued
     THEN /\ inbox' = BroadcastInbox(CountUpdate(completedCount, queuedCount), failing)
          /\ sessions' = BroadcastSessions(failing)
          /\ call' = [call EXCEPT ![c].pc = "done", ![c].ok = TRUE,
                                  ![c].ret = Answer(c)]
          /\ hist' = [hist EXCEPT !.bcasts = @ + 1,
                                   !.threw = failing, !.pushed = Pushed(failing)]
     ELSE /\ failing = {}
          /\ FaultBudget(c)
          /\ call' = [call EXCEPT ![c].pc = "done", ![c].ok = FALSE]
          /\ hist' = [hist EXCEPT !.fails = @ + 1]
          /\ UNCHANGED <<inbox, sessions>>
  /\ UNCHANGED <<completedCount, queuedCount, loading, webSockets, wsState>>
  /\ UNCHANGED shopVars

\* handleWebSocketUpgrade(): accept the socket and send the current counts
handleWebSocketUpgrade(s) ==
  /\ wsState[s] = "new"
  /\ InputGateOpen
  /\ webSockets' = webSockets \cup {s}
  /\ sessions' = sessions \cup {s}
  /\ wsState' = [wsState EXCEPT ![s] = "open"]
  /\ inbox' = [inbox EXCEPT ![s] = CountUpdate(completedCount, queuedCount)]
  /\ hist' = [hist EXCEPT !.fresh = FALSE, !.pushed[s] = @ + 1]
  /\ UNCHANGED <<completedCount, queuedCount, storage, loading, call>>
  /\ UNCHANGED shopVars

\* webSocketMessage(ws, message): get_count and ping are answered on ws, any
\* other type is logged; a message that does not parse, or a send that
\* throws, is caught and logged
webSocketMessageStrict(s, type, sendOk) ==
  /\ s \in webSockets /\ wsState[s] = "open"
  /\ InputGateOpen
  /\ hist.inbound < MaxInbound
  /\ type \in {"unknown", "unparsable"} => sendOk
  /\ inbox' = IF ~sendOk THEN inbox
              ELSE IF type = "get_count"
              THEN ReplyTo(s, CountUpdate(completedCount, queuedCount))
              ELSE IF type = "ping" THEN ReplyTo(s, Pong)
              ELSE inbox
  /\ wsState' = IF type \in {"unknown", "unparsable"}
                THEN [wsState EXCEPT ![s] = "closed"] ELSE wsState
  /\ webSockets' = IF type \in {"unknown", "unparsable"}
                   THEN webSockets \ {s} ELSE webSockets
  /\ sessions' = IF type \in {"unknown", "unparsable"}
                 THEN sessions \ {s} ELSE sessions
  /\ hist' = [hist EXCEPT
       !.fresh = FALSE, !.inbound = @ + 1, !.msg = <<s, type, hist.bcasts>>,
       !.pushed[s] = IF sendOk /\ type \in {"get_count", "ping"} THEN @ + 1 ELSE @]
  /\ UNCHANGED <<completedCount, queuedCount, storage, loading, call>>
  /\ UNCHANGED shopVars
webSocketMessage(s, type, sendOk) ==
  /\ s \in webSockets /\ wsState[s] = "open"
  /\ InputGateOpen
  /\ hist.inbound < MaxInbound
  /\ type \in {"unknown", "unparsable"} => sendOk
  /\ inbox' = IF ~sendOk THEN inbox
              ELSE IF type = "get_count"
              THEN ReplyTo(s, CountUpdate(completedCount, queuedCount))
              ELSE IF type = "ping" THEN ReplyTo(s, Pong)
              ELSE inbox
  /\ hist' = [hist EXCEPT
       !.fresh = FALSE, !.inbound = @ + 1, !.msg = <<s, type, hist.bcasts>>,
       !.pushed[s] = IF sendOk /\ type \in {"get_count", "ping"} THEN @ + 1 ELSE @]
  /\ UNCHANGED <<completedCount, queuedCount, storage, loading, call, sessions,
                 webSockets, wsState>>
  /\ UNCHANGED shopVars

\* the client closes its end: readyState is no longer OPEN
ClientCloses(s) ==
  /\ wsState[s] = "open"
  /\ wsState' = [wsState EXCEPT ![s] = "closing"]
  /\ UNCHANGED <<completedCount, queuedCount, storage, loading, call, sessions,
                 webSockets, inbox, hist>>
  /\ UNCHANGED shopVars

\* webSocketClose(ws) / webSocketError(ws)
webSocketClose(s) ==
  /\ wsState[s] = "closing"
  /\ InputGateOpen
  /\ sessions' = sessions \ {s}
  /\ webSockets' = webSockets \ {s}
  /\ wsState' = [wsState EXCEPT ![s] = "closed"]
  /\ hist' = [hist EXCEPT !.fresh = FALSE]
  /\ UNCHANGED <<completedCount, queuedCount, storage, loading, call, inbox>>
  /\ UNCHANGED shopVars


(* ------------------------------ gateway -------------------------------- *)
\* new Date(): the clock read is the last one stored or a later one (a
\* read whose value is not stored leaves no trace)
Clock == {t \in now..MaxClock : t <= now + 1}

\* POST /order, up to the await of the counter's answer: validate the body
\* (400), insert the row (500 when the insert throws), send increment-queued
postOrderIgnoresInsertError(o, body, t, insertOk) ==
  /\ gw.pc = "idle"
  /\ store[o].status = "none"
  /\ \A d \in Orders : d < o => store[d].status # "none"
  /\ IF ~ValidBody(body)
     THEN /\ gw' = [pc |-> "idle", order |-> o, resp |-> 400, counted |-> TRUE]
          /\ UNCHANGED <<store, trail, call, now>>
     ELSE /\ ~insertOk => StoreFaultBudget
          /\ now' = t
          /\ store' = IF insertOk THEN [store EXCEPT ![o] = NewOrder(body, t)]
                      ELSE store
          /\ UNCHANGED trail
          /\ call' = [call EXCEPT ![Gateway] =
                        [IdleCall EXCEPT !.op = "increment-queued", !.pc = "sent"]]
          /\ gw' = [pc |-> "counter", order |-> o, resp |-> 0, counted |-> TRUE]
  /\ UNCHANGED <<msgs, wk>>
  /\ UNCHANGED counterVars
  /\ UNCHANGED att
postOrder(o, body, t, insertOk) ==
  /\ gw.pc = "idle"
  /\ store[o].status = "none"
  /\ \A d \in Orders : d < o => store[d].status # "none"
  /\ IF ~ValidBody(body)
     THEN /\ gw' = [pc |-> "idle", order |-> o, resp |-> 400, counted |-> TRUE]
          /\ UNCHANGED <<store, trail, call, now>>
     ELSE IF ~insertOk
     THEN /\ StoreFaultBudget
          /\ gw' = [pc |-> "idle", order |-> o, resp |-> 500, counted |-> TRUE]
          /\ UNCHANGED <<store, trail, call, now>>
     ELSE /\ now' = t
          /\ store' = [store EXCEPT ![o] = NewOrder(body, t)]
          /\ UNCHANGED trail
          /\ call' = [call EXCEPT ![Gateway] =
                        [IdleCall EXCEPT !.op = "increment-queued", !.pc = "sent"]]
          /\ gw' = [pc |-> "counter", order |-> o, resp |-> 0, counted |-> TRUE]
  /\ UNCHANGED <<msgs, wk>>
  /\ UNCHANGED counterVars
  /\ UNCHANGED att

\* POST /order: the counter answered or the call threw (caught and logged)
postOrderCountedOrFails ==
  /\ gw.pc = "counter"
  /\ call[Gateway].pc = "done"
  /\ call' = [call EXCEPT ![Gateway] = IdleCall]
  /\ gw' = IF call[Gateway].ok THEN [gw EXCEPT !.pc = "send"]
           ELSE [gw EXCEPT !.pc = "idle", !.resp = 500, !.counted = FALSE]
  /\ UNCHANGED <<store, msgs, wk, now, trail>>
  /\ UNCHANGED counterVars
  /\ UNCHANGED att
postOrderCounted ==
  /\ gw.pc = "counter"
  /\ call[Gateway].pc = "done"
  /\ call' = [call EXCEPT ![Gateway] = IdleCall]
  /\ gw' = [gw EXCEPT !.pc = "send", !.counted = call[Gateway].ok]
  /\ UNCHANGED <<store, msgs, wk, now, trail>>
  /\ UNCHANGED counterVars
  /\ UNCHANGED att

\* POST /order: ICE_CREAM_QUEUE.send(queueOrder) and the answer (200), or 500
\* when the send throws
postOrderSend(sendOk) ==
  /\ gw.pc = "send"
  /\ IF sendOk
     THEN /\ msgs' = [msgs EXCEPT ![gw.order].state = "queued"]
          /\ gw' = [gw EXCEPT !.pc = "idle", !.resp = 200]
          /\ UNCHANGED trail
     ELSE /\ StoreFaultBudget
          /\ gw' = [gw EXCEPT !.pc = "idle", !.resp = 500]
          /\ trail' = [trail EXCEPT !.faults = @ + 1]
          /\ UNCHANGED msgs
  /\ UNCHANGED <<store, wk, now, call>>
  /\ UNCHANGED counterVars
  /\ UNCHANGED att

\* GET /status/:orderId: the answer to a query for order o in the current
\* state of the table (404 when there is no row); estimatedTime is present in
\* every 200 answer, null unless the status is pending or preparing
StatusResponseKeepsEstimate(o) ==
  IF store[o].status = "none"
  THEN [code |-> 404, error |-> "Order not found"]
  ELSE [code |-> 200, orderId |-> o, status |-> store[o].status,
        estimatedTime |-> store[o].estimatedTime,
        updatedAt |-> store[o].updatedAt, completedAt |-> store[o].completedAt]
StatusResponse(o) ==
  IF store[o].status = "none"
  THEN [code |-> 404, error |-> "Order not found"]
  ELSE [code |-> 200, orderId |-> o, status |-> store[o].status,
        estimatedTime |-> IF store[o].status \in {"pending", "preparing"}
                          THEN store[o].estimatedTime ELSE NullText,
        updatedAt |-> store[o].updatedAt, completedAt |-> store[o].completedAt]

(* --------------------------- queue consumer ---------------------------- *)
\* the queue delivers a batch: queue(batch, env) starts
queueDeliver(b) ==
  /\ wk.pc = "idle"
  /\ b \in Batches
  /\ Canonical(b)
  /\ msgs' = [o \in Orders |->
       IF \E i \in 1..Len(b) : b[i] = o
       THEN [state |-> "delivered", deliveries |-> msgs[o].deliveries + 1]
       ELSE msgs[o]]
  /\ wk' = [pc |-> "prepare", batch |-> b, idx |-> 1, err |-> "none"]
  /\ UNCHANGED <<store, gw, now, call, trail>>
  /\ UNCHANGED counterVars
  /\ UNCHANGED att

\* processIceCreamOrder: the write of status preparing
processPreparingSwallows(t, writeOk) ==
  /\ wk.pc = "prepare"
  /\ IF writeOk
     THEN /\ store' = Update(Current, SetPreparing(store[Current], t))
          /\ now' = t
          /\ UNCHANGED trail
     ELSE /\ StoreFaultBudget
          /\ trail' = [trail EXCEPT !.faults = @ + 1]
          /\ UNCHANGED <<store, now>>
  /\ wk' = [wk EXCEPT !.pc = "action"]
  /\ UNCHANGED <<msgs, gw, call>>
  /\ UNCHANGED counterVars
  /\ UNCHANGED att
processPreparing(t, writeOk) ==
  /\ wk.pc = "prepare"
  /\ IF writeOk
     THEN /\ store' = Update(Current, SetPreparing(store[Current], t))
          /\ now' = t
          /\ wk' = [wk EXCEPT !.pc = "action"]
          /\ UNCHANGED trail
     ELSE /\ StoreFaultBudget
          /\ wk' = [wk EXCEPT !.pc = "catch", !.err = "store"]
          /\ trail' = [trail EXCEPT !.faults = @ + 1, !.failed = @ \cup {Current}]
          /\ UNCHANGED <<store, now>>
  /\ UNCHANGED <<msgs, gw, call>>
  /\ UNCHANGED counterVars
  /\ UNCHANGED att

\* processIceCreamOrder: the fulfillment action (the fetch and the timer)
processAction(actionOk) ==
  /\ wk.pc = "action"
  /\ wk' = IF actionOk THEN [wk EXCEPT !.pc = "complete"]
           ELSE [wk EXCEPT !.pc = "catch", !.err = "action"]
  /\ trail' = IF actionOk THEN trail ELSE [trail EXCEPT !.failed = @ \cup {Current}]
  /\ UNCHANGED <<store, msgs, gw, now, call>>
  /\ UNCHANGED counterVars
  /\ UNCHANGED att

\* processIceCreamOrder: the write of status completed, then the
\* increment-completed request to the counter
processCompletedCountsFirst(t, writeOk) ==
  /\ wk.pc = "complete"
  /\ call' = [call EXCEPT ![Worker] = CounterRequest(Current)]
  /\ IF writeOk
     THEN /\ store' = Update(Current, SetCompleted(store[Current], t))
          /\ now' = t
          /\ wk' = [wk EXCEPT !.pc = "counter"]
          /\ trail' = [trail EXCEPT !.completions = @ + 1]
     ELSE /\ StoreFaultBudget
          /\ wk' = [wk EXCEPT !.pc = "catch", !.err = "store"]
          /\ trail' = [trail EXCEPT !.faults = @ + 1, !.failed = @ \cup {Current}]
          /\ UNCHANGED <<store, now>>
  /\ UNCHANGED <<msgs, gw>>
  /\ UNCHANGED counterVars
  /\ UNCHANGED att
processCompleted(t, writeOk) ==
  /\ wk.pc = "complete"
  /\ IF writeOk
     THEN /\ store' = Update(Current, SetCompleted(store[Current], t))
          /\ now' = t
          /\ call' = [call EXCEPT ![Worker] = CounterRequest(Current)]
          /\ wk' = [wk EXCEPT !.pc = "counter"]
          /\ trail' = [trail EXCEPT !.completions = @ + 1]
     ELSE /\ StoreFaultBudget
          /\ wk' = [wk EXCEPT !.pc = "catch", !.err = "store"]
          /\ trail' = [trail EXCEPT !.faults = @ + 1, !.failed = @ \cup {Current}]
          /\ UNCHANGED <<store, call, now>>
  /\ UNCHANGED <<msgs, gw>>
  /\ UNCHANGED counterVars
  /\ UNCHANGED att

\* processIceCreamOrder returns: the counter answered or the call threw
\* (caught and logged). queue() goes on to the next message, or returns and
\* the batch is acknowledged
processCountedRaises ==
  /\ wk.pc = "counter"
  /\ call[Worker].pc = "done"
  /\ call' = [call EXCEPT ![Worker] = IdleCall]
  /\ IF ~call[Worker].ok
     THEN /\ wk' = [wk EXCEPT !.pc = "catch", !.err = "counter"]
          /\ UNCHANGED msgs
     ELSE IF wk.idx < Len(wk.batch)
     THEN /\ wk' = [wk EXCEPT !.pc = "prepare", !.idx = @ + 1]
          /\ UNCHANGED msgs
     ELSE /\ wk' = IdleWorker
          /\ msgs' = [o \in Orders |->
               IF msgs[o].state = "delivered"
               THEN [msgs[o] EXCEPT !.state = "acked"] ELSE msgs[o]]
  /\ UNCHANGED <<store, gw, now, trail>>
  /\ UNCHANGED counterVars
  /\ UNCHANGED att
processCounted ==
  /\ wk.pc = "counter"
  /\ call[Worker].pc = "done"
  /\ call' = [call EXCEPT ![Worker] = IdleCall]
  /\ IF wk.idx < Len(wk.batch)
     THEN /\ wk' = [wk EXCEPT !.pc = "prepare", !.idx = @ + 1]
          /\ UNCHANGED msgs
     ELSE /\ wk' = IdleWorker
          /\ msgs' = [o \in Orders |->
               IF msgs[o].state = "delivered"
               THEN [msgs[o] EXCEPT !.state = "acked"] ELSE msgs[o]]
  /\ UNCHANGED <<store, gw, now, trail>>
  /\ UNCHANGED counterVars
  /\ UNCHANGED att

\* queue(), catch branch: the write of status cancelled (its failure is
\* logged), then throw error: the invocation fails and the queue retries
\* every message of the batch, or moves it to the dead letter queue after
\* max_retries retries
queueCatch(t, writeOk) ==
  /\ wk.pc = "catch"
  /\ IF writeOk
     THEN /\ store' = Update(Current, SetCancelled(store[Current], t))
          /\ now' = t
          /\ UNCHANGED trail
     ELSE /\ StoreFaultBudget
          /\ trail' = [trail EXCEPT !.faults = @ + 1]
          /\ UNCHANGED <<store, now>>
  /\ wk' = [IdleWorker EXCEPT !.err = Rethrown(wk.err, writeOk)]
  /\ msgs' = Retried
  /\ UNCHANGED <<gw, call>>
  /\ UNCHANGED counterVars
  /\ UNCHANGED att

\* the invocation is cut short (the isolate is stopped, or the invocation
\* stalls until the runtime gives it up) after the preparing write of the
\* message in progress and before its completed or cancelled write: nothing
\* is written, the queue takes the invocation as failed
workerCrash ==
  /\ wk.pc \in {"action", "complete"}
  /\ wk' = [IdleWorker EXCEPT !.err = "crash"]
  /\ msgs' = Retried
  /\ trail' = [trail EXCEPT !.failed = @ \cup {Current}]
  /\ UNCHANGED <<store, gw, now, call>>
  /\ UNCHANGED counterVars
  /\ UNCHANGED att

(* ----------------------- overlapping invocations ----------------------- *)
\* the queue delivers the message of order Redelivered to invocation a, while
\* earlier invocations may still be processing it: queue() calls
\* processIceCreamOrder, which reads now = new Date()
attemptDeliver(a, t) ==
  /\ att[a].pc = "none"
  /\ \A b \in Attempts : b < a => att[b].pc # "none"
  /\ msgs[Redelivered].state \in {"queued", "delivered"}
  /\ msgs' = [msgs EXCEPT ![Redelivered] =
                [state |-> "delivered", deliveries |-> @.deliveries + 1]]
  /\ now' = t
  /\ att' = [att EXCEPT ![a] = [pc |-> "prepare", t |-> t]]
  /\ UNCHANGED <<store, wk, gw, trail, call>>
  /\ UNCHANGED counterVars

\* processIceCreamOrder of invocation a: the preparing write reaches the
\* table, with the timestamp read before
attemptPreparing(a) ==
  /\ att[a].pc = "prepare"
  /\ store' = Update(Redelivered, SetPreparing(store[Redelivered], att[a].t))
  /\ att' = [att EXCEPT ![a].pc = "action"]
  /\ UNCHANGED <<msgs, wk, gw, now, trail, call>>
  /\ UNCHANGED counterVars

\* the fulfillment action of invocation a succeeds, and the invocation reads
\* completedAt = new Date()
attemptAction(a, t) ==
  /\ att[a].pc = "action"
  /\ now' = t
  /\ att' = [att EXCEPT ![a] = [pc |-> "complete", t |-> t]]
  /\ UNCHANGED <<store, msgs, wk, gw, trail, call>>
  /\ UNCHANGED counterVars

\* the completed write of invocation a reaches the table, with the timestamp
\* read before; the invocation then calls the counter, as a caller of its own
attemptCompleted(a) ==
  /\ att[a].pc = "complete"
  /\ store' = Update(Redelivered, SetCompleted(store[Redelivered], att[a].t))
  /\ trail' = [trail EXCEPT !.completions = @ + 1]
  /\ call' = [call EXCEPT ![a] = CounterRequest(Redelivered)]
  /\ att' = [att EXCEPT ![a].pc = "counter"]
  /\ UNCHANGED <<msgs, wk, gw, now>>
  /\ UNCHANGED counterVars

\* the counter answered invocation a: processIceCreamOrder and queue() return;
\* the message is acknowledged once no invocation holds it
attemptCounted(a) ==
  /\ att[a].pc = "counter"
  /\ call[a].pc = "done"
  /\ call' = [call EXCEPT ![a] = IdleCall]
  /\ att' = [att EXCEPT ![a].pc = "done"]
  /\ msgs' = IF \A b \in Attempts \ {a} : att[b].pc \in {"none", "done"}
             THEN [msgs EXCEPT ![Redelivered].state = "acked"] ELSE msgs
  /\ UNCHANGED <<store, wk, gw, now, trail>>
  /\ UNCHANGED counterVars

OverlapNext ==
  \/ \E a \in Attempts, t \in Clock : attemptDeliver(a, t)
  \/ \E a \in Attempts : attemptPreparing(a)
  \/ \E a \in Attempts, t \in Clock : attemptAction(a, t)
  \/ \E a \in Attempts : attemptCompleted(a)
  \/ \E a \in Attempts : attemptCounted(a)
  \/ \E a \in Attempts : handleIncrementCompleted(a)
  \/ \E a \in Attempts : handleIncrementCompletedResume(a, TRUE, {})

ClientOps == {"increment-completed", "increment-queued", "count", "reset"}

CounterNext ==
  \/ initializeCounters
  \/ Restart
  \/ \E c \in Clients, op \in ClientOps : ClientRequest(c, op)
  \/ \E c \in Callers : CallFails(c)
  \/ \E c \in Callers : handleIncrementCompleted(c)
  \/ \E c \in Callers, ok \in BOOLEAN, f \in SUBSET OpenSockets :
        handleIncrementCompletedResume(c, ok, f)
  \/ \E c \in Callers : handleIncrementQueued(c)
  \/ \E c \in Callers, ok \in BOOLEAN, f \in SUBSET OpenSockets :
        handleIncrementQueuedResume(c, ok, f)
  \/ \E c \in Callers : handleGetCount(c)
  \/ \E c \in Callers : handleReset(c)
  \/ \E c \in Callers, okC \in BOOLEAN, okQ \in BOOLEAN, f \in SUBSET OpenSockets :
        handleResetResume(c, okC, okQ, f)
  \/ \E s \in Sockets : handleWebSocketUpgrade(s)
  \/ \E s \in Sockets, type \in Inbound, ok \in BOOLEAN : webSocketMessage(s, type, ok)
  \/ \E s \in Sockets : ClientCloses(s)
  \/ \E s \in Sockets : webSocketClose(s)

GatewayNext ==
  \/ \E o \in Orders, body \in Bodies, t \in Clock, ok \in BOOLEAN :
        postOrder(o, body, t, ok)
  \/ postOrderCounted
  \/ \E ok \in BOOLEAN : postOrderSend(ok)
  \/ handleIncrementQueued(Gateway)
  \/ \E ok \in BOOLEAN : handleIncrementQueuedResume(Gateway, ok, {})
  \/ CallFails(Gateway)

WorkerNext ==
  \/ CallFails(Worker)
  \/ handleIncrementCompleted(Worker)
  \/ \E ok \in BOOLEAN : handleIncrementCompletedResume(Worker, ok, {})
  \/ \E b \in Batches : Delivered + Len(b) <= MaxDeliveries /\ queueDeliver(b)
  \/ \E t \in Clock, ok \in BOOLEAN : processPreparing(t, ok)
  \/ \E ok \in BOOLEAN : processAction(ok)
  \/ \E t \in Clock, ok \in BOOLEAN : processCompleted(t, ok)
  \/ processCounted
  \/ \E t \in Clock, ok \in BOOLEAN : queueCatch(t, ok)

\* the queue consumer with every delivery the queue makes, up to the dead
\* letter queue; the attempts fail by their action only (every store write
\* and counter call succeeds) and the clock stands still
RetryNext ==
  \/ handleIncrementCompleted(Worker)
  \/ handleIncrementCompletedResume(Worker, TRUE, {})
  \/ \E b \in Batches : queueDeliver(b)
  \/ processPreparing(now, TRUE)
  \/ \E ok \in BOOLEAN : processAction(ok)
  \/ processCompleted(now, TRUE)
  \/ processCounted
  \/ queueCatch(now, TRUE)
\* the same with invocations cut short
CrashNext == RetryNext \/ workerCrash

\* the counter called by external clients only
CallsNext ==
  \/ initializeCounters
  \/ Restart
  \/ \E c \in Clients, op \in ClientOps : ClientRequest(c, op)
  \/ \E c \in Clients : CallFails(c)
  \/ \E c \in Clients : handleIncrementCompleted(c)
  \/ \E c \in Clients, ok \in BOOLEAN : handleIncrementCompletedResume(c, ok, {})
  \/ \E c \in Clients : handleIncrementQueued(c)
  \/ \E c \in Clients, ok \in BOOLEAN : handleIncrementQueuedResume(c, ok, {})
  \/ \E c \in Clients : handleGetCount(c)
  \/ \E c \in Clients : handleReset(c)
  \/ \E c \in Clients, okC \in BOOLEAN, okQ \in BOOLEAN :
        handleResetResume(c, okC, okQ, {})

\* the sockets are interchangeable: they connect by increasing id
NextToOpen(s) == \A d \in Sockets : d < s => wsState[d] # "new"

\* the counter, its push channels and the mutating calls of external clients
PushCallers == 1..NumPushCalls
PushSockets == 1..NumPushSockets
PushOps == {"increment-completed", "increment-queued", "reset"}
PushNext ==
  \/ initializeCounters
  \/ Restart
  \/ \E c \in PushCallers, op \in PushOps : ClientRequest(c, op)
  \/ \E c \in PushCallers : handleIncrementCompleted(c)
  \/ \E c \in PushCallers, ok \in BOOLEAN, f \in SUBSET OpenSockets :
        handleIncrementCompletedResume(c, ok, f)
  \/ \E c \in PushCallers : handleIncrementQueued(c)
  \/ \E c \in PushCallers, ok \in BOOLEAN, f \in SUBSET OpenSockets :
        handleIncrementQueuedResume(c, ok, f)
  \/ \E c \in PushCallers : handleReset(c)
  \/ \E c \in PushCallers, okC \in BOOLEAN, okQ \in BOOLEAN, f \in SUBSET OpenSockets :
        handleResetResume(c, okC, okQ, f)
  \/ \E s \in PushSockets : NextToOpen(s) /\ handleWebSocketUpgrade(s)
  \/ \E s \in PushSockets : ClientCloses(s)
  \/ \E s \in PushSockets : webSocketClose(s)

\* the counter, its push channels and the messages the clients send on them:
\* the clients call one after the other (a call is sent once the one before
\* is answered), the mutating call is increment-completed, every storage
\* write succeeds and no socket is closed
ChannelCallers == 1..NumChannelCalls
ChannelOps == {"increment-completed", "count"}
NoCallInFlight == \A d \in Callers : call[d].pc \in {"idle", "done"}
ChannelNext ==
  \/ initializeCounters
  \/ \E c \in ChannelCallers, op \in ChannelOps :
        NoCallInFlight /\ ClientRequest(c, op)
  \/ \E c \in ChannelCallers : handleIncrementCompleted(c)
  \/ \E c \in ChannelCallers, f \in SUBSET OpenSockets :
        handleIncrementCompletedResume(c, TRUE, f)
  \/ \E c \in ChannelCallers : handleGetCount(c)
  \/ \E s \in Sockets : NextToOpen(s) /\ handleWebSocketUpgrade(s)
  \/ \E s \in Sockets, type \in Inbound, ok \in BOOLEAN : webSocketMessage(s, type, ok)

\* the counter reached through its two entries, activated with persisted
\* counts: the callers call one after the other, by a request to fetch() or
\* by a method of the stub (the three operations that have both), and the
\* clients open push channels; each key of the storage was never written or
\* holds the largest count
InitEntry ==
  /\ InitPersisted
  /\ storage.completedOrders \in {Undefined, MaxStored}
  /\ storage.queuedOrders \in {Undefined, MaxStored}
EntryCallers == 1..NumEntryCalls
StubOps == {"increment-completed", "increment-queued", "count"}
ViaFetch(c) == c \in EntryCallers /\ call[c].via = "fetch"
ViaStub(c) == c \in EntryCallers /\ call[c].via = "rpc"
EntryNext ==
  \/ initializeCounters
  \/ \E c \in EntryCallers, op \in StubOps :
        NoCallInFlight /\ ClientRequest(c, op)
  \/ \E c \in EntryCallers, op \in StubOps :
        NoCallInFlight /\ StubCall(c, op)
  \/ \E c \in Clients : ViaFetch(c) /\ handleIncrementCompleted(c)
  \/ \E c \in Clients, ok \in BOOLEAN, f \in SUBSET OpenSockets :
        ViaFetch(c) /\ handleIncrementCompletedResume(c, ok, f)
  \/ \E c \in Clients : ViaFetch(c) /\ handleIncrementQueued(c)
  \/ \E c \in Clients, ok \in BOOLEAN, f \in SUBSET OpenSockets :
        ViaFetch(c) /\ handleIncrementQueuedResume(c, ok, f)
  \/ \E c \in Clients : ViaFetch(c) /\ handleGetCount(c)
  \/ \E c \in Clients : ViaStub(c) /\ incrementCompletedCount(c)
  \/ \E c \in Clients, ok \in BOOLEAN, f \in SUBSET OpenSockets :
        ViaStub(c) /\ incrementCompletedCountResume(c, ok, f)
  \/ \E c \in Clients : ViaStub(c) /\ incrementQueuedCount(c)
  \/ \E c \in Clients, ok \in BOOLEAN, f \in SUBSET OpenSockets :
        ViaStub(c) /\ incrementQueuedCountResume(c, ok, f)
  \/ \E c \in Clients : ViaStub(c) /\ getCurrentCounts(c)
  \/ \E s \in PushSockets : NextToOpen(s) /\ handleWebSocketUpgrade(s)

\* the counter and push channels that the clients open and close, or that
\* fail: the callers make their mutating calls one after the other
CloseNext ==
  \/ initializeCounters
  \/ \E c \in EntryCallers, op \in PushOps :
        NoCallInFlight /\ ClientRequest(c, op)
  \/ \E c \in EntryCallers : handleIncrementCompleted(c)
  \/ \E c \in EntryCallers, ok \in BOOLEAN, f \in SUBSET OpenSockets :
        handleIncrementCompletedResume(c, ok, f)
  \/ \E c \in EntryCallers : handleIncrementQueued(c)
  \/ \E c \in EntryCallers, ok \in BOOLEAN, f \in SUBSET OpenSockets :
        handleIncrementQueuedResume(c, ok, f)
  \/ \E c \in EntryCallers : handleReset(c)
  \/ \E c \in EntryCallers, okC \in BOOLEAN, okQ \in BOOLEAN, f \in SUBSET OpenSockets :
        handleResetResume(c, okC, okQ, f)
  \/ \E s \in PushSockets : NextToOpen(s) /\ handleWebSocketUpgrade(s)
  \/ \E s \in PushSockets : ClientCloses(s)
  \/ \E s \in PushSockets : webSocketClose(s)

\* the gateway with its faults (an insert, a counter call or a send that
\* fails), and the consumer of the messages it sends: the attempts fail by
\* their action only and read the clock where the gateway left it
IntakeNext ==
  \/ initializeCounters
  \/ GatewayNext
  \/ handleIncrementCompleted(Worker)
  \/ handleIncrementCompletedResume(Worker, TRUE, {})
  \/ \E b \in Batches : Delivered + Len(b) <= MaxDeliveries /\ queueDeliver(b)
  \/ processPreparing(now, TRUE)
  \/ \E ok \in BOOLEAN : processAction(ok)
  \/ processCompleted(now, TRUE)
  \/ processCounted
  \/ queueCatch(now, TRUE)

Next == CounterNext \/ GatewayNext \/ WorkerNext \/ CrashNext

\* the whole system
Spec == Init /\ [][Next]_vars
\* the counter and its external callers
SpecCalls == Init /\ [][CallsNext]_vars
\* the gateway, the queue and its consumer, with the counter they call
SpecShop == Init /\ [][initializeCounters \/ GatewayNext \/ WorkerNext]_vars
\* the counter and its push channels, activated with persisted counts
SpecPush == InitPersisted /\ [][PushNext]_vars
\* the counter, its push channels and their inbound messages
SpecChannels == Init /\ [][ChannelNext]_vars
\* the queue and its consumer, with the counter it calls, once the orders
\* are queued
SpecWorker == InitQueued /\ [][WorkerNext]_vars
\* the same with every redelivery, up to the dead letter queue
SpecRetry == InitQueued /\ [][RetryNext]_vars
\* the same when the queue goes on delivering the messages it holds and an
\* invocation started goes on to its end
SpecRetryFair == InitQueued /\ [][RetryNext]_vars /\ WF_vars(RetryNext)
\* the same with invocations cut short
SpecCrash == InitQueued /\ [][CrashNext]_vars
\* invocations that process the same message at overlapping times, every
\* one succeeding
SpecOverlap == InitQueued /\ [][OverlapNext]_vars
\* the gateway and the consumer of what it enqueues
SpecIntake == Init /\ [][IntakeNext]_vars
\* the counter and push channels that are closed
SpecClose == Init /\ [][CloseNext]_vars
\* the counter reached by requests and by the methods of its stub
SpecEntry == InitEntry /\ [][EntryNext]_vars

(* ------------------------------ claims --------------------------------- *)
\* the external calls of each kind that were sent
Sent(op) == {c \in Clients : call[c].op = op}
\* every external call sent has been answered
AllReturned == \A c \in Clients : call[c].pc \in {"idle", "done"}
\* the increment-completed calls answered with success
DoneIncrements ==
  {c \in Clients : /\ call[c].op = "increment-completed"
                   /\ call[c].pc = "done" /\ call[c].ok}

\* C1: K increment-completed calls issued concurrently from (0,0), every
\* persistence write succeeding and no reset: once all have returned,
\* get-counts reports completedCount = K (and queuedCount = the number of
\* increment-queued calls, 0 when there is none).
C1_NoLostUpdate ==
  (hist.fails = 0 /\ hist.resets = 0 /\ AllReturned /\ InputGateOpen)
    => /\ completedCount = Cardinality(Sent("increment-completed"))
       /\ queuedCount = Cardinality(Sent("increment-queued"))

\* C1 witness: NumClients increment-completed calls were in flight at the same
\* time, all have returned, and the count is NumClients
C1_Witness ==
  /\ hist.overlap = NumClients /\ hist.fails = 0 /\ AllReturned /\ InputGateOpen
  /\ Cardinality(Sent("increment-completed")) = NumClients
  /\ completedCount = NumClients /\ queuedCount = 0

\* C2: mutating calls never interleave: while a call is between its update of
\* the counters and its broadcast (awaiting its storage write), no step
\* changes the counters, broadcasts, or starts another handler; and the step
\* that ends it broadcasts at most once and leaves the counters as they are.
C2_Serialized ==
  [][\A c \in Callers :
       call[c].pc = "awaitPut" =>
         /\ completedCount' = completedCount
         /\ queuedCount' = queuedCount
         /\ \A d \in Callers \ {c} : call'[d].pc # "awaitPut"
         /\ IF call'[c].pc = "awaitPut"
            THEN hist'.bcasts = hist.bcasts
            ELSE hist'.bcasts \in {hist.bcasts, hist.bcasts + 1}]_vars

\* C2 witness: a mutating call awaits its storage write while another
\* mutating call has been sent and waits to be handled
C2_Witness ==
  \E c, d \in Clients :
    /\ c # d
    /\ call[c].pc = "awaitPut"
    /\ call[d].pc = "sent"
    /\ call[d].op \in {"increment-completed", "increment-queued", "reset"}

\* C3: whenever no call is being handled, completedCount is the number of
\* increment-completed calls that succeeded since the last reset, and
\* queuedCount the number of successful increment-queued calls, also when
\* persistence writes fail.
C3_CountsSuccesses ==
  (AllReturned /\ InputGateOpen)
    => completedCount = hist.okC /\ queuedCount = hist.okQ

\* C4: the counts an increment-completed call returns are those its own
\* increment produced; with no failure and no reset the values returned by
\* the calls answered so far are exactly 1, 2, ..., n, each once.
C4_OwnSnapshot ==
  /\ \A c \in DoneIncrements : call[c].ret[1] = call[c].put
  /\ (hist.fails = 0 /\ hist.resets = 0)
       => {call[c].ret[1] : c \in DoneIncrements} = 1..Cardinality(DoneIncrements)

\* C4 witness: NumClients concurrent increment-completed calls have all been
\* answered, with the values 1..NumClients
C4_Witness ==
  /\ hist.overlap = NumClients /\ hist.fails = 0 /\ hist.resets = 0
  /\ Cardinality(DoneIncrements) = NumClients
  /\ {call[c].ret[1] : c \in DoneIncrements} = 1..NumClients

\* C5: an invocation of queue() on a batch ends only once every message of
\* the batch has had its attempt: a failure on one message does not keep the
\* messages after it from being processed in that invocation.
C5_BatchNotAborted ==
  [][(wk.pc # "idle" /\ wk'.pc = "idle") => wk.idx = Len(wk.batch)]_vars

\* C6: the status of a row only changes along pending -> preparing,
\* preparing -> completed and preparing -> cancelled (and from no row to
\* pending), so completed and cancelled are terminal. Stated for the runs in
\* which no store write fails.
C6_Lifecycle ==
  [][trail'.faults = 0 =>
       \A o \in Orders :
         store'[o].status # store[o].status =>
           <<store[o].status, store'[o].status>> \in
             {<<"none", "pending">>, <<"pending", "preparing">>,
              <<"preparing", "completed">>, <<"preparing", "cancelled">>}]_vars

\* C7: an order whose processing attempt succeeded (completedAt is only ever
\* written by an attempt whose writes and action all succeeded) has the
\* status sequence pending, preparing, completed: its row is never again
\* pending or preparing once completedAt is set, so completedAt is NULL in
\* the pending and preparing states, and in the completed state
\* processedAt <= completedAt. Stated for the runs in which no store write
\* fails.
C7_HappyPath ==
  \A o \in Orders :
    trail.faults = 0 =>
      /\ store[o].status \in {"pending", "preparing"} => store[o].completedAt = Null
      /\ store[o].status = "completed" =>
           /\ store[o].processedAt # Null
           /\ store[o].processedAt <= store[o].completedAt

\* C8: when the fulfillment action of an attempt raised, the attempt leaves
\* the order cancelled with completedAt NULL, whatever happened to the order
\* before. Stated for the runs in which no store write fails.
C8_RaiseCancels ==
  [][(wk.pc = "catch" /\ wk.err = "action" /\ wk'.pc = "idle" /\ trail'.faults = 0)
       => /\ store'[Current].status = "cancelled"
          /\ store'[Current].completedAt = Null]_vars

\* C9: an order whose message was delivered twice and processed, both
\* invocations over: its status is completed or cancelled, and completedAt is
\* set exactly when the status is completed. Stated for the runs in which no
\* store write fails (an order processed only once in such a run satisfies
\* the conclusion, so it is the orders processed twice that decide it).
C9_Redelivery ==
  \A o \in Orders :
    (/\ trail.faults = 0
     /\ msgs[o].deliveries = 2 /\ msgs[o].state # "delivered"
     /\ store[o].status # "pending")
      => /\ store[o].status \in {"completed", "cancelled"}
         /\ (store[o].completedAt # Null) <=> (store[o].status = "completed")

\* C10: each attempt that writes status completed sends one
\* increment-completed call, redeliveries included: when no counter call
\* fails, completedCount, plus the call sent and not yet handled, is the
\* number of completed writes.
C10_NoDedup ==
  /\ wk.pc = "counter" => call[Worker].pc # "idle"
  /\ hist.fails = 0 =>
       completedCount + (IF call[Worker].pc = "sent" THEN 1 ELSE 0)
         = trail.completions

\* C10 witness: two attempts completed the same order (no other row has
\* completedAt set) and completedCount is 2
C10_Witness ==
  /\ hist.fails = 0 /\ wk.pc = "idle"
  /\ trail.completions = 2 /\ completedCount = 2
  /\ Cardinality({o \in Orders : store[o].completedAt # Null}) = 1

\* the messages of the batch in progress go back to the queue (or to the dead
\* letter queue) in the step
BatchRetried ==
  \A i \in 1..Len(wk.batch) :
    /\ msgs'[wk.batch[i]].state \in {"queued", "dead"}
    /\ msgs'[wk.batch[i]].deliveries = msgs[wk.batch[i]].deliveries

\* C11: processedAt is set once in an order's life, by the step that takes
\* the status from pending to preparing; once set its value does not change.
\* Stated for the runs in which no store write fails.
C11_ProcessedAtOnce ==
  [][trail'.faults = 0 =>
       \A o \in Orders :
         store'[o].processedAt # store[o].processedAt =>
           /\ store[o].processedAt = Null
           /\ store[o].status = "pending" /\ store'[o].status = "preparing"]_vars

\* C12: completedAt is written only by the write that sets status completed:
\* the row the gateway inserts has completedAt NULL, and a step that changes
\* a row's completedAt is the completed write of the attempt in progress.
C12_CompletedAtFrame ==
  /\ \A o \in Orders : store[o].status = "pending" /\ store[o].completedAt = Null
  /\ [][\A o \in Orders :
          store'[o].completedAt # store[o].completedAt =>
            /\ wk.pc = "complete" /\ Current = o
            /\ store'[o].status = "completed"]_vars

\* C12 witness: a row completed earlier has since been written by the
\* preparing write or the cancelled write and still has its completedAt
C12_Witness ==
  \E o \in Orders :
    /\ store[o].completedAt # Null
    /\ store[o].status \in {"preparing", "cancelled"}

\* C13: an order whose status is cancelled has processedAt set.
C13_CancelledWasStarted ==
  \A o \in Orders : store[o].status = "cancelled" => store[o].processedAt # Null

\* C14: the status of an order becomes cancelled only in the catch branch of
\* an attempt whose fulfillment action raised, never after a store write or
\* the counter call failed.
C14_SoleTrigger ==
  [][\A o \in Orders :
       (store'[o].status = "cancelled" /\ store[o].status # "cancelled")
         => wk.pc = "catch" /\ Current = o /\ wk.err = "action"]_vars

\* C15: while the worker waits for the counter's answer, and when it gets it,
\* whether the call failed or not: the row stays completed with completedAt
\* set, the attempt does not enter the catch branch, and the worker goes on
\* to the next message or returns with the batch acknowledged.
C15_CounterFailureSwallowed ==
  [][wk.pc = "counter" =>
       /\ store' = store
       /\ store[Current].status = "completed"
       /\ store[Current].completedAt # Null
       /\ wk'.pc # "catch"
       /\ wk' # wk =>
            \/ wk'.pc = "prepare" /\ wk'.idx = wk.idx + 1 /\ msgs' = msgs
            \/ wk'.pc = "idle" /\ wk'.err = "none"
               /\ msgs'[Current].state = "acked"]_vars

\* C15 witness: the only fault of the run was the failure of the worker's
\* counter call; the order is completed and its message acknowledged
C15_Witness ==
  /\ wk.pc = "idle" /\ hist.fails = 1 /\ hist.okC = 0 /\ trail.completions = 1
  /\ \E o \in Orders :
       /\ msgs[o].state = "acked"
       /\ store[o].status = "completed" /\ store[o].completedAt # Null

\* C16: when the catch branch ends, the error thrown to the queue layer is
\* the error caught from the attempt, also when the cancelled write failed
\* (then the row is left as it was), and the batch's messages are retried.
C16_OriginalErrorRethrown ==
  [][(wk.pc = "catch" /\ wk'.pc = "idle") =>
       /\ wk'.err = wk.err
       /\ BatchRetried
       /\ trail'.faults > trail.faults => store' = store]_vars

\* C16 witness: an attempt's action raised and its cancelled write failed:
\* the invocation ended with the action's error, the row is still preparing
\* and the message is queued again
C16_Witness ==
  /\ wk.pc = "idle" /\ wk.err = "action" /\ trail.faults = 1
  /\ \E o \in Orders :
       store[o].status = "preparing" /\ msgs[o].state = "queued"

\* C17: a preparing write or a completed write that fails takes the attempt
\* to the catch branch with the store's error, with no row written and no
\* counter call sent; from there the action is not executed, no completed
\* write and no counter call are issued, and the invocation ends by throwing
\* that error to the queue layer.
C17_StoreFailureFatal ==
  [][/\ (wk.pc \in {"prepare", "complete"} /\ trail'.faults > trail.faults) =>
          /\ wk'.pc = "catch" /\ wk'.err = "store"
          /\ store' = store /\ call' = call
          /\ trail'.completions = trail.completions
     /\ (wk.pc = "catch" /\ wk.err = "store") =>
          /\ call' = call
          /\ trail'.completions = trail.completions
          /\ \A o \in Orders : store'[o].completedAt = store[o].completedAt
          /\ wk' # wk => wk'.pc = "idle" /\ wk'.err = "store" /\ BatchRetried]_vars

\* C17 witness: the preparing write of an order's first attempt failed: the
\* invocation ended with the store's error, nothing was completed or counted,
\* and the message is queued again
C17_Witness ==
  /\ wk.pc = "idle" /\ wk.err = "store"
  /\ trail.completions = 0 /\ completedCount = 0
  /\ \E o \in Orders :
       /\ msgs[o].state = "queued" /\ msgs[o].deliveries = 1
       /\ store[o].processedAt = Null

\* C18: a reset call sets both counters to 0 when it is handled, whatever
\* they were; when its writes have succeeded it has persisted (0,0), answers
\* (0,0), and every socket open at that moment whose send did not throw has
\* received count_update (0,0) in that step.
C18_ResetZeroes ==
  [][\A c \in Callers :
       /\ (call[c].op = "reset" /\ call[c].pc = "sent" /\ call'[c].pc = "awaitPut")
            => completedCount' = 0 /\ queuedCount' = 0
       /\ (call[c].op = "reset" /\ call[c].pc = "awaitPut"
           /\ call'[c].pc = "done" /\ call'[c].ok)
            => /\ completedCount' = 0 /\ queuedCount' = 0
               /\ storage' = [completedOrders |-> 0, queuedOrders |-> 0]
               /\ call'[c].ret = <<0, 0>>
               /\ \A s \in OpenSockets \ hist'.threw :
                    inbox'[s] = CountUpdate(0, 0)]_vars

\* C18 witness: a socket that was opened and then pushed one more message
\* holds (0,0) after a reset call that succeeded
C18_Witness ==
  \E c \in Clients, s \in Sockets :
    /\ call[c].op = "reset" /\ call[c].pc = "done" /\ call[c].ok
    /\ wsState[s] = "open" /\ hist.pushed[s] = 2
    /\ inbox[s] = CountUpdate(0, 0)
    /\ completedCount = 0 /\ queuedCount = 0

\* C19: the step that accepts a socket sends it, as its first message, a
\* count_update with the counts of that moment; when that step is the first
\* event handled since the object was constructed, these are the persisted
\* counts (0 for a key never written).
C19_FirstSnapshot ==
  [][\A s \in Sockets :
       (wsState[s] = "new" /\ wsState'[s] = "open") =>
         /\ hist.pushed[s] = 0
         /\ inbox'[s] = CountUpdate(completedCount, queuedCount)
         /\ hist.fresh =>
              inbox'[s] = CountUpdate(OrZero(storage.completedOrders),
                                      OrZero(storage.queuedOrders))]_vars

\* C19 witness: the object was activated with a persisted pair of non-zero
\* counts, the opening of the socket was its first event, and the socket
\* holds that pair
C19_Witness ==
  \E s \in Sockets :
    /\ hist.restarts = 0 /\ \A c \in Callers : call[c].pc = "idle"
    /\ wsState[s] = "open" /\ hist.pushed[s] = 1
    /\ storage.completedOrders > 0 /\ storage.queuedOrders > 0
    /\ inbox[s] = CountUpdate(storage.completedOrders, storage.queuedOrders)

\* C20: the step in which a mutating call succeeds (its write resolved)
\* sends the counts it leaves to every socket open at that moment whose send
\* does not throw, sockets accepted before a restart included.
C20_MutationPushes ==
  [][\A c \in Callers :
       (call[c].pc = "awaitPut" /\ call'[c].pc = "done" /\ call'[c].ok) =>
         \A s \in OpenSockets \ hist'.threw :
           /\ inbox'[s] = CountUpdate(completedCount', queuedCount')
           /\ inbox'[s] = CountUpdate(call'[c].ret[1], call'[c].ret[2])]_vars

\* C20 witness: on a cold-started counter a socket was opened, then one
\* increment-completed call succeeded: the socket has received two messages
\* and holds (1,0)
C20_Witness ==
  \E c \in Clients, s \in Sockets :
    /\ hist.restarts = 0
    /\ call[c].op = "increment-completed" /\ call[c].pc = "done" /\ call[c].ok
    /\ call[c].ret = <<1, 0>>
    /\ storage.queuedOrders = Undefined
    /\ wsState[s] = "open" /\ hist.pushed[s] = 2
    /\ inbox[s] = CountUpdate(1, 0)

\* a mutating call's write resolved in the step and it broadcast
Broadcasts(c) ==
  /\ call[c].pc = "awaitPut" /\ call'[c].pc = "done"
  /\ hist'.bcasts = hist.bcasts + 1
\* a message of one of the types was received on socket s in the step
Received(s, types) ==
  /\ hist'.inbound = hist.inbound + 1
  /\ hist'.msg[1] = s /\ hist'.msg[2] \in types

\* C21: when sends throw during the broadcast of a mutating call, every
\* other open socket still receives that call's counts in the step, and the
\* call answers with success and those counts, its increment kept in memory
\* and in storage.
C21_SendFailureIsolated ==
  [][\A c \in Callers :
       (Broadcasts(c) /\ hist'.threw # {}) =>
         /\ call'[c].ok
         /\ call'[c].ret = <<completedCount', queuedCount'>>
         /\ completedCount' = call[c].put
         /\ storage'.completedOrders = call[c].put
         /\ \A s \in OpenSockets \ hist'.threw :
              inbox'[s] = CountUpdate(completedCount', queuedCount')]_vars

\* C21 witness: two sockets were opened at (0,0); the send to the first threw
\* in the broadcast of an increment-completed call, the second holds (1,0)
\* and the call answered (1,0)
C21_Witness ==
  \E c \in Clients, s, d \in Sockets :
    /\ d < s /\ wsState[s] = "open" /\ wsState[d] = "open"
    /\ hist.threw = {d} /\ hist.bcasts = 1
    /\ call[c].op = "increment-completed" /\ call[c].pc = "done" /\ call[c].ok
    /\ call[c].ret = <<1, 0>> /\ completedCount = 1 /\ storage.completedOrders = 1
    /\ inbox[s] = CountUpdate(1, 0) /\ hist.pushed[s] = 2
    /\ inbox[d] = CountUpdate(0, 0) /\ hist.pushed[d] = 1

\* C22: a socket whose send threw in a broadcast is not sent to by the next
\* broadcast: that broadcast neither delivers a message to it nor has a send
\* to it throw.
C22_FailedChannelRemoved ==
  [][\A c \in Callers, s \in hist.threw :
       Broadcasts(c) =>
         /\ hist'.pushed[s] = hist.pushed[s]
         /\ s \notin hist'.threw]_vars

\* C23: a count call answers with the counts in memory and changes nothing:
\* counters, storage, sessions, accepted sockets and what the clients hold are
\* as before, and no message is sent.
C23_GetCountsPure ==
  [][\A c \in Callers :
       (/\ call[c].op = "count" /\ call[c].pc = "sent"
        /\ call'[c].pc = "done" /\ call'[c].ok) =>
         /\ call'[c].ret = <<completedCount, queuedCount>>
         /\ completedCount' = completedCount /\ queuedCount' = queuedCount
         /\ storage' = storage
         /\ sessions' = sessions /\ webSockets' = webSockets /\ wsState' = wsState
         /\ inbox' = inbox
         /\ hist'.bcasts = hist.bcasts /\ hist'.pushed = hist.pushed]_vars

\* C23 witness: a count call answered (1,0) while an open socket, whose send
\* threw in the broadcast of the increment, still holds (0,0)
C23_Witness ==
  \E c \in Clients, s \in Sockets :
    /\ call[c].op = "count" /\ call[c].pc = "done" /\ call[c].ok
    /\ call[c].ret = <<1, 0>> /\ storage.completedOrders = 1
    /\ wsState[s] = "open" /\ s \in hist.threw
    /\ inbox[s] = CountUpdate(0, 0) /\ hist.pushed[s] = 1

\* C24: a get_count message received on a socket is answered, when the send
\* does not throw, with a count_update of the counts in memory on that
\* socket; no other socket receives anything, and counters and storage are
\* unchanged.
C24_GetCountReply ==
  [][\A s \in Sockets :
       Received(s, {"get_count"}) =>
         /\ inbox'[s] \in {inbox[s], CountUpdate(completedCount, queuedCount)}
         /\ hist'.pushed[s] = hist.pushed[s] + 1
              => inbox'[s] = CountUpdate(completedCount, queuedCount)
         /\ \A d \in Sockets \ {s} :
              inbox'[d] = inbox[d] /\ hist'.pushed[d] = hist.pushed[d]
         /\ hist'.bcasts = hist.bcasts
         /\ completedCount' = completedCount /\ queuedCount' = queuedCount
         /\ storage' = storage]_vars

\* C24 witness: of two open sockets the second missed the broadcast of (1,0)
\* (its send threw); the first asked get_count and holds (1,0) as its third
\* message, the second still holds (0,0)
C24_Witness ==
  \E s, d \in Sockets :
    /\ s # d /\ wsState[s] = "open" /\ wsState[d] = "open"
    /\ hist.msg = <<s, "get_count", 1>> /\ hist.threw = {d}
    /\ inbox[s] = CountUpdate(1, 0) /\ hist.pushed[s] = 3
    /\ inbox[d] = CountUpdate(0, 0) /\ hist.pushed[d] = 1
    /\ completedCount = 1

\* C25: a message of an unknown type, or one that does not parse, received
\* on a socket gets no reply and changes nothing: counters, storage, the
\* socket's state and the sets of sockets are as before; and the next
\* broadcast still sends to that socket.
C25_UnknownIgnored ==
  [][\A s \in Sockets :
       /\ Received(s, {"unknown", "unparsable"}) =>
            /\ inbox' = inbox /\ hist'.pushed = hist.pushed
            /\ completedCount' = completedCount /\ queuedCount' = queuedCount
            /\ storage' = storage
            /\ wsState' = wsState /\ webSockets' = webSockets
            /\ sessions' = sessions
       /\ \A c \in Callers :
            (/\ hist.msg[1] = s /\ hist.msg[2] \in {"unknown", "unparsable"}
             /\ Broadcasts(c)) =>
               /\ s \in OpenSockets
               /\ s \notin hist'.threw =>
                    inbox'[s] = CountUpdate(completedCount', queuedCount')]_vars

\* C25 witness: a socket opened at (0,0) sent a message of an unknown type
\* before any broadcast, and has since received (1,0) from the broadcast of
\* an increment-completed call
C25_Witness ==
  \E s \in Sockets :
    /\ hist.msg = <<s, "unknown", 0>> /\ hist.bcasts = 1
    /\ wsState[s] = "open" /\ s \in webSockets /\ s \in sessions
    /\ inbox[s] = CountUpdate(1, 0) /\ hist.pushed[s] = 2

\* the external mutating calls answered with success
DoneMutations ==
  {d \in Clients : /\ call[d].op \in {"increment-completed", "increment-queued", "reset"}
                   /\ call[d].pc = "done" /\ call[d].ok}

\* C26: a count call handled as the first event of an activation of the
\* object answers (0,0) when no mutating call ever succeeded, and, when one
\* mutating call succeeded before, the pair that call answered.
C26_SurvivesReactivation ==
  [][\A c \in Clients :
       (/\ call[c].op = "count" /\ call[c].pc = "sent"
        /\ call'[c].pc = "done" /\ call'[c].ok /\ hist.fresh) =>
         /\ DoneMutations = {} => call'[c].ret = <<0, 0>>
         /\ \A d \in DoneMutations :
              DoneMutations = {d} => call'[c].ret = call[d].ret]_vars

\* C27 as stated: the answer to a status query carries the estimated time
\* while the order is pending or preparing; for a completed order it reports
\* status completed with completedAt set and has no estimatedTime field.
C27_NoEstimatedTimeField ==
  \A o \in Orders :
    /\ store[o].status \in {"pending", "preparing"} =>
         StatusResponse(o).estimatedTime = store[o].estimatedTime
    /\ store[o].status = "completed" =>
         /\ StatusResponse(o).status = "completed"
         /\ StatusResponse(o).completedAt # Null
         /\ "estimatedTime" \notin DOMAIN StatusResponse(o)

\* C27 amended: the answer to a status query carries the order's estimated
\* time while the order is pending or preparing; for any other status, and so
\* for a completed order, whose answer reports status completed with
\* completedAt set, the estimatedTime field is present and null.
C27_EstimatedTimeNull ==
  \A o \in Orders :
    store[o].status # "none" =>
      /\ StatusResponse(o).code = 200
      /\ StatusResponse(o).status = store[o].status
      /\ "estimatedTime" \in DOMAIN StatusResponse(o)
      /\ store[o].status \in {"pending", "preparing"} =>
           /\ StatusResponse(o).estimatedTime = estimateTime("medium", 1)
           /\ StatusResponse(o).estimatedTime # NullText
      /\ store[o].status \notin {"pending", "preparing"} =>
           StatusResponse(o).estimatedTime = NullText
      /\ store[o].status = "completed" => StatusResponse(o).completedAt # Null

\* C27 witness: an order has been completed, its row still has the estimate
\* the gateway stored, and the answer to a query has estimatedTime null and
\* completedAt set
C27_Witness ==
  \E o \in Orders :
    /\ store[o].status = "completed" /\ msgs[o].state = "acked"
    /\ store[o].estimatedTime = <<5, 7>>
    /\ StatusResponse(o).status = "completed"
    /\ StatusResponse(o).estimatedTime = NullText
    /\ StatusResponse(o).completedAt = store[o].completedAt
    /\ store[o].completedAt # Null

\* the invocation in progress ends in the step by failing
InvocationFails == wk.pc # "idle" /\ wk'.pc = "idle" /\ wk'.err # "none"

\* C28: once an order's message has left the queue (acknowledged or moved
\* to the dead letter queue), the order is completed unless an attempt of
\* its own failed or was cut short: the failures of the other messages of
\* its batches never keep it from being completed.
C28_NoBlocking ==
  \A o \in Orders :
    (msgs[o].state \in {"acked", "dead"} /\ o \notin trail.failed)
      => store[o].status = "completed"

\* C29: an invocation cut short after the preparing write leaves the row
\* preparing and written by nothing; a row that is preparing is not changed
\* while its message is not being processed; and once a message is in the
\* dead letter queue it is never delivered again and its order's row never
\* changes.
C29_StuckPreparing ==
  [][/\ (wk.pc \in {"action", "complete"} /\ wk'.pc = "idle") =>
          /\ store[Current].status = "preparing"
          /\ store' = store
          /\ msgs'[Current].state \in {"queued", "dead"}
     /\ \A o \in Orders :
          /\ (store[o].status = "preparing" /\ msgs[o].state # "delivered")
               => store'[o] = store[o]
          /\ msgs[o].state = "dead"
               => store'[o] = store[o] /\ msgs'[o] = msgs[o]]_vars

\* C29 witness: the last delivery of a message was cut short: the message
\* is in the dead letter queue and its order is preparing
C29_Witness ==
  \E o \in Orders :
    /\ wk.pc = "idle" /\ wk.err = "crash"
    /\ msgs[o].state = "dead" /\ msgs[o].deliveries = 1 + max_retries
    /\ store[o].status = "preparing" /\ store[o].completedAt = Null

\* C30: no message is delivered more than 1 + max_retries times; a message
\* is in the dead letter queue only after that many deliveries, and goes
\* there when the invocation of its last delivery fails; and every message
\* ends acknowledged or in the dead letter queue.
C30_RetryBounded ==
  /\ [](\A o \in Orders :
          /\ msgs[o].deliveries <= 1 + max_retries
          /\ msgs[o].state = "dead" => msgs[o].deliveries = 1 + max_retries)
  /\ [][\A o \in Orders :
          (InvocationFails /\ msgs[o].state = "delivered") =>
            msgs'[o].state = IF msgs[o].deliveries = 1 + max_retries
                             THEN "dead" ELSE "queued"]_vars
  /\ \A o \in Orders : <>[](msgs[o].state \in {"acked", "dead"})

\* C30 witness: every message has left the queue, one of them to the dead
\* letter queue after 1 + max_retries deliveries that all failed by the
\* action of its own order
C30_Witness ==
  /\ wk.pc = "idle" /\ wk.err = "action"
  /\ \A o \in Orders : msgs[o].state \in {"acked", "dead"}
  /\ \E o \in Orders :
       /\ msgs[o].state = "dead" /\ msgs[o].deliveries = 1 + max_retries
       /\ store[o].status = "cancelled" /\ o \in trail.failed

\* C31: within a processing attempt the increment-completed call is issued
\* only in the step whose completed write succeeded; an attempt that ends in
\* the catch branch has no call issued; hence completedCount never exceeds
\* the number of completed writes that succeeded (no reset is made here).
C31_CountAfterWrite ==
  /\ completedCount <= trail.completions
  /\ [][/\ (call[Worker].pc # "sent" /\ call'[Worker].pc = "sent") =>
              (/\ wk.pc = "complete" /\ wk'.pc = "counter"
               /\ store'[Current].status = "completed"
               /\ store'[Current].completedAt = now'
               /\ trail'.completions = trail.completions + 1)
         /\ (wk'.pc = "catch" => call'[Worker].pc = "idle")
         /\ completedCount' <= trail'.completions]_vars
\* an invocation counted its first order and failed on its second one
C31_Witness ==
  /\ wk.pc = "idle" /\ wk.err = "action"
  /\ trail.completions = 1 /\ completedCount = 1 /\ hist.okC = 1
  /\ \E o, p \in Orders :
       /\ store[o].status = "completed"
       /\ store[p].status = "cancelled" /\ store[p].completedAt = Null

\* the step of caller c up to the await of its call of op, and the step from
\* the await to the answer
Starts(c, op) ==
  call[c].op = op /\ call[c].pc = "sent" /\ call'[c].pc = "awaitPut"
Resumes(c, op) ==
  call[c].op = op /\ call[c].pc = "awaitPut" /\ call'[c].pc = "done"

\* C32: an increment changes its own counter by exactly +1 and leaves the
\* other one alone, in memory and in storage: increment-queued leaves
\* completedCount and the key completedOrders untouched, increment-completed
\* leaves queuedCount and the key queuedOrders untouched; the key of the own
\* counter receives the incremented value when the put succeeds.
C32_OwnCounterOnly ==
  [][\A c \in Callers :
       /\ Starts(c, "increment-queued") =>
            /\ queuedCount' = queuedCount + 1
            /\ completedCount' = completedCount /\ storage' = storage
       /\ Resumes(c, "increment-queued") =>
            /\ queuedCount' = queuedCount /\ completedCount' = completedCount
            /\ storage'.completedOrders = storage.completedOrders
            /\ storage'.queuedOrders =
                 IF call'[c].ok THEN queuedCount ELSE storage.queuedOrders
       /\ Starts(c, "increment-completed") =>
            /\ completedCount' = completedCount + 1
            /\ queuedCount' = queuedCount /\ storage' = storage
       /\ Resumes(c, "increment-completed") =>
            /\ completedCount' = completedCount /\ queuedCount' = queuedCount
            /\ storage'.queuedOrders = storage.queuedOrders
            /\ storage'.completedOrders =
                 IF call'[c].ok THEN completedCount ELSE storage.completedOrders]_vars
\* one increment of each kind was made on persisted counts
C32_Witness ==
  /\ hist.okC = 1 /\ hist.okQ = 1 /\ hist.fails = 0 /\ NoCallInFlight
  /\ completedCount = MaxStored + 1 /\ queuedCount = 1
  /\ storage = [completedOrders |-> MaxStored + 1, queuedOrders |-> 1]

\* the step is one that fetch() makes for the call of c / one that the
\* method of the stub makes for it
FetchStep(c) ==
  \/ handleIncrementCompleted(c)
  \/ \E ok \in BOOLEAN, f \in SUBSET OpenSockets :
        handleIncrementCompletedResume(c, ok, f)
  \/ handleIncrementQueued(c)
  \/ \E ok \in BOOLEAN, f \in SUBSET OpenSockets :
        handleIncrementQueuedResume(c, ok, f)
  \/ handleGetCount(c)
StubStep(c) ==
  \/ incrementCompletedCount(c)
  \/ \E ok \in BOOLEAN, f \in SUBSET OpenSockets :
        incrementCompletedCountResume(c, ok, f)
  \/ incrementQueuedCount(c)
  \/ \E ok \in BOOLEAN, f \in SUBSET OpenSockets :
        incrementQueuedCountResume(c, ok, f)
  \/ getCurrentCounts(c)

\* C33: the two entries are equivalent: every step the object makes for a
\* call (of /increment-completed, /increment-queued or /count, or of the
\* method that corresponds) is a step of the request handler and a step of the
\* method, from the same state to the same state: same counters, same
\* persisted values, same broadcasts, same answered pair.
C33_EntriesEquivalent ==
  [][\A c \in EntryCallers :
       (call[c].pc \in {"sent", "awaitPut"} /\ call'[c] # call[c])
         => (FetchStep(c) /\ StubStep(c))]_vars
\* the same operation was called by a request and then by the method, with a
\* push channel open: the answers differ by the one increment between them
C33_Witness ==
  /\ call[1].via = "fetch" /\ call[2].via = "rpc"
  /\ \A c \in {1, 2} :
       call[c].op = "increment-completed" /\ call[c].pc = "done" /\ call[c].ok
  /\ call[2].ret = <<call[1].ret[1] + 1, call[1].ret[2]>>
  /\ hist.bcasts = 2 /\ hist.pushed[1] = 3
  /\ inbox[1] = CountUpdate(call[2].ret[1], call[2].ret[2])

\* the call of c is the first event of the object since it was activated
FirstEvent(c) ==
  /\ hist.okC = 0 /\ hist.okQ = 0 /\ hist.fails = 0 /\ hist.restarts = 0
  /\ \A d \in Callers \ {c} : call[d].pc = "idle"
  /\ \A s \in Sockets : wsState[s] = "new"

\* C37: the load started by the constructor never overwrites a later
\* mutation: the object being activated with completedOrders = c persisted
\* (0 when the key was never written), when its first event is an
\* increment-completed call the call leaves completedCount = c + 1 in memory
\* and, its put succeeding, in storage; no handler runs while the load is
\* pending.
C37_LoadBeforeFirstCall ==
  /\ [](loading => hist.fresh /\ \A c \in Callers : call[c].pc \in {"idle", "sent"})
  /\ [][\A c \in Callers :
          /\ (Starts(c, "increment-completed") /\ FirstEvent(c)) =>
               /\ hist.fresh
               /\ completedCount' = OrZero(storage.completedOrders) + 1
               /\ call'[c].put = completedCount'
          /\ (Resumes(c, "increment-completed") /\ FirstEvent(c)) =>
               /\ completedCount' = OrZero(storage.completedOrders) + 1
               /\ call'[c].ok => /\ storage'.completedOrders = completedCount'
                                 /\ call'[c].ret[1] = completedCount'
               /\ ~loading']_vars
\* activated with the largest count persisted, the object answered its first
\* event, an increment-completed call
C37_Witness ==
  /\ hist.okC = 1 /\ hist.okQ = 0 /\ hist.fails = 0 /\ ~loading
  /\ call[1].op = "increment-completed" /\ call[1].pc = "done" /\ call[1].ok
  /\ \A d \in Callers \ {1} : call[d].pc = "idle"
  /\ \A s \in Sockets : wsState[s] = "new"
  /\ completedCount = MaxStored + 1
  /\ storage.completedOrders = MaxStored + 1

C38_SubscribersConverge ==
  (NoCallInFlight /\ InputGateOpen /\ hist.fails = 0)
    => \A s \in OpenSockets : inbox[s] = CountUpdate(completedCount, queuedCount)

\* C35: the gateway's increment-queued call is best-effort: when it fails
\* during a valid submission the request goes on to the send with the row
\* still pending, and then, unless the send itself throws, the message is
\* enqueued and the submission answered with success.
C35_CounterBestEffort ==
  [][/\ (gw.pc = "counter" /\ gw' # gw /\ ~call[Gateway].ok) =>
          /\ gw' = [gw EXCEPT !.pc = "send", !.counted = FALSE]
          /\ store'[gw.order].status = "pending"
          /\ msgs' = msgs
     /\ (gw.pc = "send" /\ ~gw.counted /\ gw' # gw) =>
          /\ store'[gw.order].status = "pending"
          /\ trail'.faults = trail.faults =>
               /\ msgs'[gw.order].state = "queued"
               /\ gw' = [gw EXCEPT !.pc = "idle", !.resp = 200]]_vars
\* a submission whose counter call failed was answered with success
C35_Witness ==
  /\ gw.pc = "idle" /\ gw.resp = 200 /\ ~gw.counted
  /\ hist.fails = 1 /\ hist.okQ = 0
  /\ store[gw.order].status = "pending" /\ msgs[gw.order].state = "queued"

\* C36: the gateway inserts the row before it sends the message: in every
\* state each message in the queue, delivered, acknowledged or dead-lettered
\* refers to an existing row, the request past its insert has its row, and
\* the consumer about to make the preparing write of a message finds the row.
C36_RowBeforeMessage ==
  /\ \A o \in Orders : msgs[o].state # "none" => store[o].status # "none"
  /\ gw.pc \in {"counter", "send"} => store[gw.order].status = "pending"
  /\ wk.pc # "idle" => store[Current].status # "none"
\* the consumer made the preparing write of an order the gateway submitted,
\* while the next submission is between its insert and its send
C36_Witness ==
  /\ wk.pc = "action" /\ store[Current].status = "preparing"
  /\ gw.pc = "send" /\ gw.order # Current
  /\ msgs[gw.order].state = "none"

\* C39: the schema allows the status ready but neither the gateway nor the
\* consumer writes it: in every state the status of each row is pending,
\* preparing, completed or cancelled.
C39_NeverReady ==
  \A o \in Orders :
    store[o].status # "none" => store[o].status \in Statuses \ {"ready"}
\* the gateway and the consumer have made each of their writes: one order is
\* completed, another is cancelled after its preparing write
C39_Witness ==
  \E o, p \in Orders :
    /\ store[o].status = "completed" /\ store[o].completedAt # Null
    /\ store[p].status = "cancelled" /\ store[p].processedAt # Null
    /\ gw.resp = 200

\* C40: two processing attempts of the same order overlap and both succeed:
\* once both have finished, whatever the order in which their writes reached
\* the table, the order is completed and processedAt <= completedAt.
C40_OverlapSettles ==
  (\A a \in Attempts : att[a].pc = "done")
    => /\ store[Redelivered].status = "completed"
       /\ store[Redelivered].processedAt <= store[Redelivered].completedAt
====
